---- MODULE Spec2Model ----
(***************************************************************************)
(* Verification model of terraform-provider-idsec's schema engine:         *)
(*   - the immutable-attribute plan modifiers                              *)
(*     (internal/schemas/schemas_planmodifiers.go),                        *)
(*   - the resource schema generation and the resource's Schema handler    *)
(*     (internal/schemas/schemas_planmodifiers.go,                         *)
(*      internal/provider/idsec_resource.go),                              *)
(*   - the plan/apply life cycle of the in-memory resources of             *)
(*     internal/schemas/schemas_planmodifiers_integration_test.go,         *)
(*   - the attribute-tree merge of the converters (unnamed/part_006).      *)
(***************************************************************************)
EXTENDS Integers, Sequences, FiniteSets, TLC

VARIABLES
    guardKind,      \* which PlanModify<Kind> was called last ("none" before any call)
    guardReq,       \* the planmodifier.<Kind>Request of that call
    guardResp,      \* the planmodifier.<Kind>Response after the call
    tfState,        \* life cycle: the resource's stored state (NullRaw when absent)
    tfConfig,       \* life cycle: the configuration of the running test step
    tfPlan,         \* life cycle: the planned state (NullRaw for a destroy plan)
    tfDiags,        \* life cycle: diagnostics of the last PlanResourceChange
    tfPhase,        \* life cycle: "idle" | "planned" | "rejected"
    tfCreatedWith,  \* life cycle: the plan the resource was created from
    tfLastCall,     \* life cycle: the last CRUD method called, with its request
    actionDefinition, \* schema: the resource's action definition
    respSchema,     \* schema: the SchemaResponse of IdsecResource.Schema
    schemaPlan,     \* schema: a planned change of one attribute under that schema
    mergeExisting,  \* merge: existingAttrs before the call
    mergeIncoming,  \* merge: attrsToMerge
    mergeResult,    \* merge: existingAttrs after the call
    mergeObjInput,  \* MergePlanToStateObject: plan object, state object, schema types
    mergeObjOutput, \* MergePlanToStateObject: the (object, error) returned
    convInput,      \* converters: the arguments of the call under study
    convOutput,     \* converters: what the call returned
    reconInput,  \* reconciliation: plan and state objects and their prototypes
    reconOutput, \* reconciliation: the (record, error) returned
    copyState, \* DeepCopy: the heap, the original, the copy and what was mutated
    crudState, \* concurrent operations: the shared action definition and each operation's position
    trigState  \* triggerOperation: the operation, its failure point and the response state

guardVars  == <<guardKind, guardReq, guardResp>>
lifeVars   == <<tfState, tfConfig, tfPlan, tfDiags, tfPhase, tfCreatedWith, tfLastCall>>
schemaVars == <<actionDefinition, respSchema, schemaPlan>>
mergeVars  == <<mergeExisting, mergeIncoming, mergeResult>>
convVars   == <<mergeObjInput, mergeObjOutput, convInput, convOutput>>
reconVars == <<reconInput, reconOutput>>
copyVars == <<copyState>>
crudVars == <<crudState>>
trigVars == <<trigState>>
vars == <<guardVars, lifeVars, schemaVars, mergeVars, convVars, reconVars, copyVars, crudVars, trigVars>>

Idle == [idle |-> TRUE]

GuardIdle  == guardKind = "none" /\ guardReq = Idle /\ guardResp = Idle
LifeIdle   == /\ tfState = Idle /\ tfConfig = Idle /\ tfPlan = Idle /\ tfDiags = << >>
              /\ tfPhase = "off" /\ tfCreatedWith = Idle /\ tfLastCall = Idle
SchemaIdle == actionDefinition = Idle /\ respSchema = Idle /\ schemaPlan = Idle
MergeIdle  == mergeExisting = Idle /\ mergeIncoming = Idle /\ mergeResult = Idle
MergeObjIdle == mergeObjInput = Idle /\ mergeObjOutput = Idle
ConvIdle   == convInput = Idle /\ convOutput = Idle
TrigIdle == trigState = Idle
CrudIdle == crudState = Idle
CopyIdle == copyState = Idle
ReconIdle == reconInput = Idle /\ reconOutput = Idle

(***************************************************************************)
(* attr.Type and attr.Value of the plugin framework.  A value carries its  *)
(* kind, its tri-state (null / unknown / known) and, as in basetypes, the  *)
(* zero payload when it is not known.                                      *)
(***************************************************************************)
StringType == [k |-> "String"]
Int64Type  == [k |-> "Int64"]
BoolType   == [k |-> "Bool"]
ListType(elemType)   == [k |-> "List", et |-> elemType]
SetType(elemType)    == [k |-> "Set", et |-> elemType]
MapType(elemType)    == [k |-> "Map", et |-> elemType]
ObjectType(attrTypes) == [k |-> "Object", at |-> attrTypes]

EmptyMap == [x \in {} |-> Idle]

StringNull        == [k |-> "String", state |-> "null", v |-> ""]
StringUnknown     == [k |-> "String", state |-> "unknown", v |-> ""]
StringValue(s)    == [k |-> "String", state |-> "known", v |-> s]
Int64Null         == [k |-> "Int64", state |-> "null", v |-> 0]
Int64Unknown      == [k |-> "Int64", state |-> "unknown", v |-> 0]
Int64Value(i)     == [k |-> "Int64", state |-> "known", v |-> i]
BoolNull          == [k |-> "Bool", state |-> "null", v |-> FALSE]
BoolUnknown       == [k |-> "Bool", state |-> "unknown", v |-> FALSE]
BoolValue(b)      == [k |-> "Bool", state |-> "known", v |-> b]
ListNull(et)      == [k |-> "List", et |-> et, state |-> "null", v |-> << >>]
ListUnknown(et)   == [k |-> "List", et |-> et, state |-> "unknown", v |-> << >>]
ListKnown(et, es) == [k |-> "List", et |-> et, state |-> "known", v |-> es]
SetNull(et)       == [k |-> "Set", et |-> et, state |-> "null", v |-> {}]
SetUnknown(et)    == [k |-> "Set", et |-> et, state |-> "unknown", v |-> {}]
SetKnown(et, es)  == [k |-> "Set", et |-> et, state |-> "known", v |-> es]
MapNull(et)       == [k |-> "Map", et |-> et, state |-> "null", v |-> EmptyMap]
MapUnknown(et)    == [k |-> "Map", et |-> et, state |-> "unknown", v |-> EmptyMap]
MapKnown(et, es)  == [k |-> "Map", et |-> et, state |-> "known", v |-> es]
ObjectNull(at)    == [k |-> "Object", at |-> at, state |-> "null", v |-> EmptyMap]
ObjectUnknown(at) == [k |-> "Object", at |-> at, state |-> "unknown", v |-> EmptyMap]
ObjectKnown(at, attrs) == [k |-> "Object", at |-> at, state |-> "known", v |-> attrs]

IsNull(val)    == val.state = "null"
IsUnknown(val) == val.state = "unknown"
IsKnown(val)   == ~IsNull(val) /\ ~IsUnknown(val)

\* attr.Value.Type(ctx)
TypeOf(val) ==
    CASE val.k \in {"String", "Int64", "Bool"} -> [k |-> val.k]
      [] val.k \in {"List", "Set", "Map"}     -> [k |-> val.k, et |-> val.et]
      [] val.k = "Object"                     -> [k |-> "Object", at |-> val.at]

\* <Kind>Value.Equal(other): same type, same tri-state and, when known, the
\* same payload (element-wise for lists and maps, as sets for sets).
Equal(a, b) ==
    /\ TypeOf(a) = TypeOf(b)
    /\ a.state = b.state
    /\ (a.state = "known" => a.v = b.v)

\* ValueString / ValueInt64 / ValueBool: the payload, the zero value if not known.
ValueString(val) == val.v
ValueInt64(val)  == val.v
ValueBool(val)   == val.v

(***************************************************************************)
(* The immutable-attribute plan modifiers.                                 *)
(***************************************************************************)
errImmutableAttributeSummary == "Immutable Attribute Cannot Be Changed"

\* fmt.Sprintf(errImmutableAttributeDetailWithValues, path, current, attempted)
errImmutableAttributeDetailWithValues(path, current, attempted) ==
    [template |-> "WithValues", path |-> path, current |-> current, attempted |-> attempted]

\* fmt.Sprintf(errImmutableAttributeDetailSimple, path)
errImmutableAttributeDetailSimple(path) ==
    [template |-> "Simple", path |-> path]

\* resp.Diagnostics.AddAttributeError(path, summary, detail)
AddAttributeError(resp, path, summary, detail) ==
    [resp EXCEPT !.Diagnostics =
        Append(@, [severity |-> "error", path |-> path, summary |-> summary, detail |-> detail])]

HasError(diags) == \E i \in DOMAIN diags : diags[i].severity = "error"

\* Faulty variants of the guard, against which the properties below are exercised.
PlanModifyString_EqualFirst(req, resp) ==
    IF req.StateRawIsNull THEN resp
    ELSE IF req.PlanRawIsNull THEN resp
    ELSE IF Equal(req.PlanValue, req.StateValue) THEN resp
    ELSE AddAttributeError(resp, req.Path, errImmutableAttributeSummary,
            errImmutableAttributeDetailWithValues(req.Path,
                ValueString(req.StateValue), ValueString(req.PlanValue)))

PlanModifyString_Swapped(req, resp) ==
    IF req.StateRawIsNull THEN resp
    ELSE IF IsUnknown(req.PlanValue) THEN resp
    ELSE IF IsUnknown(req.ConfigValue) THEN resp
    ELSE IF req.PlanRawIsNull THEN resp
    ELSE IF Equal(req.PlanValue, req.StateValue) THEN resp
    ELSE AddAttributeError(resp, req.Path, errImmutableAttributeSummary,
            errImmutableAttributeDetailWithValues(req.Path,
                ValueString(req.PlanValue), ValueString(req.StateValue)))

PlanModifyString_NeverBlocks(req, resp) == resp

PlanModifyString_InvertedEqual(req, resp) ==
    IF req.StateRawIsNull THEN resp
    ELSE IF IsUnknown(req.PlanValue) THEN resp
    ELSE IF IsUnknown(req.ConfigValue) THEN resp
    ELSE IF req.PlanRawIsNull THEN resp
    ELSE IF ~Equal(req.PlanValue, req.StateValue) THEN resp
    ELSE AddAttributeError(resp, req.Path, errImmutableAttributeSummary,
            errImmutableAttributeDetailWithValues(req.Path,
                ValueString(req.StateValue), ValueString(req.PlanValue)))

PlanModifyString(req, resp) ==
    IF req.StateRawIsNull THEN resp
    ELSE IF IsUnknown(req.PlanValue) THEN resp
    ELSE IF IsUnknown(req.ConfigValue) THEN resp
    ELSE IF req.PlanRawIsNull THEN resp
    ELSE IF Equal(req.PlanValue, req.StateValue) THEN resp
    ELSE AddAttributeError(resp, req.Path, errImmutableAttributeSummary,
            errImmutableAttributeDetailWithValues(req.Path,
                ValueString(req.StateValue), ValueString(req.PlanValue)))

\* Faulty variants of the guard, against which the properties below are exercised.
PlanModifyInt64_NoDestroyCheck(req, resp) ==
    IF req.StateRawIsNull THEN resp
    ELSE IF IsUnknown(req.PlanValue) THEN resp
    ELSE IF IsUnknown(req.ConfigValue) THEN resp
    ELSE IF Equal(req.PlanValue, req.StateValue) THEN resp
    ELSE AddAttributeError(resp, req.Path, errImmutableAttributeSummary,
            errImmutableAttributeDetailWithValues(req.Path,
                ValueInt64(req.StateValue), ValueInt64(req.PlanValue)))

PlanModifyInt64(req, resp) ==
    IF req.StateRawIsNull THEN resp
    ELSE IF IsUnknown(req.PlanValue) THEN resp
    ELSE IF IsUnknown(req.ConfigValue) THEN resp
    ELSE IF req.PlanRawIsNull THEN resp
    ELSE IF Equal(req.PlanValue, req.StateValue) THEN resp
    ELSE AddAttributeError(resp, req.Path, errImmutableAttributeSummary,
            errImmutableAttributeDetailWithValues(req.Path,
                ValueInt64(req.StateValue), ValueInt64(req.PlanValue)))

PlanModifyBool(req, resp) ==
    IF req.StateRawIsNull THEN resp
    ELSE IF IsUnknown(req.PlanValue) THEN resp
    ELSE IF IsUnknown(req.ConfigValue) THEN resp
    ELSE IF req.PlanRawIsNull THEN resp
    ELSE IF Equal(req.PlanValue, req.StateValue) THEN resp
    ELSE AddAttributeError(resp, req.Path, errImmutableAttributeSummary,
            errImmutableAttributeDetailWithValues(req.Path,
                ValueBool(req.StateValue), ValueBool(req.PlanValue)))

PlanModifyList(req, resp) ==
    IF req.StateRawIsNull THEN resp
    ELSE IF IsUnknown(req.PlanValue) THEN resp
    ELSE IF IsUnknown(req.ConfigValue) THEN resp
    ELSE IF req.PlanRawIsNull THEN resp
    ELSE IF Equal(req.PlanValue, req.StateValue) THEN resp
    ELSE AddAttributeError(resp, req.Path, errImmutableAttributeSummary,
            errImmutableAttributeDetailSimple(req.Path))

PlanModifySet(req, resp) ==
    IF req.StateRawIsNull THEN resp
    ELSE IF IsUnknown(req.PlanValue) THEN resp
    ELSE IF IsUnknown(req.ConfigValue) THEN resp
    ELSE IF req.PlanRawIsNull THEN resp
    ELSE IF Equal(req.PlanValue, req.StateValue) THEN resp
    ELSE AddAttributeError(resp, req.Path, errImmutableAttributeSummary,
            errImmutableAttributeDetailSimple(req.Path))

\* Faulty variant of the guard, against which the properties below are exercised.
PlanModifyMap_NoConfigCheck(req, resp) ==
    IF req.StateRawIsNull THEN resp
    ELSE IF IsUnknown(req.PlanValue) THEN resp
    ELSE IF req.PlanRawIsNull THEN resp
    ELSE IF Equal(req.PlanValue, req.StateValue) THEN resp
    ELSE AddAttributeError(resp, req.Path, errImmutableAttributeSummary,
            errImmutableAttributeDetailSimple(req.Path))

PlanModifyMap(req, resp) ==
    IF req.StateRawIsNull THEN resp
    ELSE IF IsUnknown(req.PlanValue) THEN resp
    ELSE IF IsUnknown(req.ConfigValue) THEN resp
    ELSE IF req.PlanRawIsNull THEN resp
    ELSE IF Equal(req.PlanValue, req.StateValue) THEN resp
    ELSE AddAttributeError(resp, req.Path, errImmutableAttributeSummary,
            errImmutableAttributeDetailSimple(req.Path))

\* The values the table-driven modifier tests draw requests from, per kind.
TestPaths == {"test_attr", "immutable_id"}
StringTestValues == {StringNull, StringUnknown, StringValue(""), StringValue("old-value"),
                     StringValue("new-value")}
Int64TestValues  == {Int64Null, Int64Unknown, Int64Value(0), Int64Value(42), Int64Value(99)}
BoolTestValues   == {BoolNull, BoolUnknown, BoolValue(FALSE), BoolValue(TRUE)}
ListTestValues   == {ListNull(StringType), ListUnknown(StringType), ListKnown(StringType, << >>),
                     ListKnown(StringType, <<StringValue("a")>>),
                     ListKnown(StringType, <<StringValue("a"), StringValue("b")>>),
                     ListKnown(StringType, <<StringValue("b"), StringValue("a")>>)}
SetTestValues    == {SetNull(StringType), SetUnknown(StringType), SetKnown(StringType, {}),
                     SetKnown(StringType, {StringValue("a")}),
                     SetKnown(StringType, {StringValue("a"), StringValue("b")})}
MapTestValues    == {MapNull(StringType), MapUnknown(StringType), MapKnown(StringType, EmptyMap),
                     MapKnown(StringType, [key \in {"k"} |-> StringValue("a")]),
                     MapKnown(StringType, [key \in {"k"} |-> StringValue("b")])}

Requests(values) ==
    [StateRawIsNull : BOOLEAN, PlanRawIsNull : BOOLEAN, Path : TestPaths,
     StateValue : values, PlanValue : values, ConfigValue : values]

\* resp := &planmodifier.<Kind>Response{PlanValue: tt.planValue}
NewResponse(req) ==
    [Diagnostics |-> << >>, PlanValue |-> req.PlanValue, RequiresReplace |-> FALSE]

\* One table-driven test case: the request is drawn when the case is set up,
\* the call runs the modifier on it once.
CallPlanModifyString ==
    /\ guardKind = "String" /\ guardResp = Idle
    /\ guardResp' = PlanModifyString(guardReq, NewResponse(guardReq))
    /\ UNCHANGED <<guardKind, guardReq, lifeVars, schemaVars, mergeVars, convVars, reconVars, copyVars, crudVars, trigVars>>

CallPlanModifyInt64 ==
    /\ guardKind = "Int64" /\ guardResp = Idle
    /\ guardResp' = PlanModifyInt64(guardReq, NewResponse(guardReq))
    /\ UNCHANGED <<guardKind, guardReq, lifeVars, schemaVars, mergeVars, convVars, reconVars, copyVars, crudVars, trigVars>>

CallPlanModifyBool ==
    /\ guardKind = "Bool" /\ guardResp = Idle
    /\ guardResp' = PlanModifyBool(guardReq, NewResponse(guardReq))
    /\ UNCHANGED <<guardKind, guardReq, lifeVars, schemaVars, mergeVars, convVars, reconVars, copyVars, crudVars, trigVars>>

CallPlanModifyList ==
    /\ guardKind = "List" /\ guardResp = Idle
    /\ guardResp' = PlanModifyList(guardReq, NewResponse(guardReq))
    /\ UNCHANGED <<guardKind, guardReq, lifeVars, schemaVars, mergeVars, convVars, reconVars, copyVars, crudVars, trigVars>>

CallPlanModifySet ==
    /\ guardKind = "Set" /\ guardResp = Idle
    /\ guardResp' = PlanModifySet(guardReq, NewResponse(guardReq))
    /\ UNCHANGED <<guardKind, guardReq, lifeVars, schemaVars, mergeVars, convVars, reconVars, copyVars, crudVars, trigVars>>

CallPlanModifyMap ==
    /\ guardKind = "Map" /\ guardResp = Idle
    /\ guardResp' = PlanModifyMap(guardReq, NewResponse(guardReq))
    /\ UNCHANGED <<guardKind, guardReq, lifeVars, schemaVars, mergeVars, convVars, reconVars, copyVars, crudVars, trigVars>>

GuardTestValues(kind) ==
    CASE kind = "String" -> StringTestValues
      [] kind = "Int64"  -> Int64TestValues
      [] kind = "Bool"   -> BoolTestValues
      [] kind = "List"   -> ListTestValues
      [] kind = "Set"    -> SetTestValues
      [] kind = "Map"    -> MapTestValues

GuardKinds == {"String", "Int64", "Bool", "List", "Set", "Map"}

InitGuard ==
    /\ guardKind \in GuardKinds
    /\ guardReq \in Requests(GuardTestValues(guardKind))
    /\ guardResp = Idle
    /\ LifeIdle /\ SchemaIdle /\ MergeIdle /\ MergeObjIdle /\ ConvIdle /\ ReconIdle /\ CopyIdle /\ CrudIdle /\ TrigIdle

NextGuard ==
    \/ CallPlanModifyString
    \/ CallPlanModifyInt64
    \/ CallPlanModifyBool
    \/ CallPlanModifyList
    \/ CallPlanModifySet
    \/ CallPlanModifyMap

SpecGuard == InitGuard /\ [][NextGuard]_vars

(***************************************************************************)
(* The plan/apply life cycle of testMultiFieldResource, the in-memory      *)
(* resource of the integration tests: every test step plans the step's     *)
(* configuration against the stored state (running the schema's attribute  *)
(* plan modifiers) and applies the plan only when planning raised no error.*)
(***************************************************************************)
NullRaw == [raw |-> "null"]

\* testMultiFieldResource.Schema: the attributes, their types and plan modifiers.
testMultiFieldResourceSchema ==
    [id               |-> [Type |-> StringType, Required |-> FALSE, Computed |-> TRUE,
                           PlanModifiers |-> << >>],
     immutable_string |-> [Type |-> StringType, Required |-> TRUE, Computed |-> FALSE,
                           PlanModifiers |-> <<"ImmutableString">>],
     immutable_int    |-> [Type |-> Int64Type, Required |-> TRUE, Computed |-> FALSE,
                           PlanModifiers |-> <<"ImmutableInt64">>],
     immutable_bool   |-> [Type |-> BoolType, Required |-> TRUE, Computed |-> FALSE,
                           PlanModifiers |-> <<"ImmutableBool">>],
     mutable_field    |-> [Type |-> StringType, Required |-> TRUE, Computed |-> FALSE,
                           PlanModifiers |-> << >>]]

ResourceAttrs == <<"id", "immutable_string", "immutable_int", "immutable_bool", "mutable_field">>
GuardedAttrs  == {"immutable_string", "immutable_int", "immutable_bool"}

\* testMultiFieldResourceConfig(immutableString, immutableInt, immutableBool, mutableField)
testMultiFieldResourceConfig(immutableString, immutableInt, immutableBool, mutableField) ==
    [id               |-> StringNull,
     immutable_string |-> StringValue(immutableString),
     immutable_int    |-> Int64Value(immutableInt),
     immutable_bool   |-> BoolValue(immutableBool),
     mutable_field    |-> StringValue(mutableField)]

StepConfigs ==
    {testMultiFieldResourceConfig(s, i, b, m) :
        s \in {"id-1", "id-2"}, i \in {42, 99}, b \in BOOLEAN, m \in {"mutable", "updated"}}

\* The null value of an attribute's type (the state value of a create request).
NullOf(type) ==
    CASE type.k = "String" -> StringNull
      [] type.k = "Int64"  -> Int64Null
      [] type.k = "Bool"   -> BoolNull
      [] type.k = "List"   -> ListNull(type.et)
      [] type.k = "Set"    -> SetNull(type.et)
      [] type.k = "Map"    -> MapNull(type.et)
      [] type.k = "Object" -> ObjectNull(type.at)

UnknownOf(type) ==
    CASE type.k = "String" -> StringUnknown
      [] type.k = "Int64"  -> Int64Unknown
      [] type.k = "Bool"   -> BoolUnknown
      [] type.k = "List"   -> ListUnknown(type.et)
      [] type.k = "Set"    -> SetUnknown(type.et)
      [] type.k = "Map"    -> MapUnknown(type.et)
      [] type.k = "Object" -> ObjectUnknown(type.at)

\* The planned state the step proposes: configured values as configured; the
\* computed id is unknown on create and whenever the step changes the resource.
ProposedNewState(schema, config, prior) ==
    LET changes == prior = NullRaw
                   \/ \E a \in DOMAIN schema : ~schema[a].Computed /\ config[a] # prior[a]
    IN [a \in DOMAIN schema |->
            IF schema[a].Computed /\ IsNull(config[a])
            THEN (IF changes THEN UnknownOf(schema[a].Type) ELSE prior[a])
            ELSE config[a]]

\* <kind>planmodifier.RequiresReplace(): a changed value of an existing resource
\* marks the resource for replacement.
RequiresReplace(req, resp) ==
    IF req.StateRawIsNull THEN resp
    ELSE IF req.PlanRawIsNull THEN resp
    ELSE IF Equal(req.PlanValue, req.StateValue) THEN resp
    ELSE [resp EXCEPT !.RequiresReplace = TRUE]

\* One plan modifier of an attribute's PlanModifiers list.
RunPlanModifier(modifier, req, resp) ==
    CASE modifier = "RequiresReplace" -> RequiresReplace(req, resp)
      [] modifier = "ImmutableString" -> PlanModifyString(req, resp)
      [] modifier = "ImmutableInt64"  -> PlanModifyInt64(req, resp)
      [] modifier = "ImmutableBool"   -> PlanModifyBool(req, resp)
      [] modifier = "ImmutableList"   -> PlanModifyList(req, resp)
      [] modifier = "ImmutableSet"    -> PlanModifySet(req, resp)
      [] modifier = "ImmutableMap"    -> PlanModifyMap(req, resp)
      [] OTHER -> resp

RECURSIVE RunPlanModifiers(_, _, _)
RunPlanModifiers(modifiers, req, resp) ==
    IF modifiers = << >> THEN resp
    ELSE RunPlanModifiers(Tail(modifiers), req, RunPlanModifier(Head(modifiers), req, resp))

\* The request the schema's modifiers of attribute a are called with.
AttributeRequest(schema, a, config, prior, plan) ==
    [StateRawIsNull |-> prior = NullRaw,
     PlanRawIsNull  |-> plan = NullRaw,
     Path           |-> a,
     StateValue     |-> IF prior = NullRaw THEN NullOf(schema[a].Type) ELSE prior[a],
     PlanValue      |-> plan[a],
     ConfigValue    |-> config[a]]

\* The diagnostics of all attributes' plan modifiers, in attribute order.
RECURSIVE SchemaModifyPlan(_, _, _, _, _)
SchemaModifyPlan(schema, attrs, config, prior, plan) ==
    IF attrs = << >> THEN << >>
    ELSE LET a    == Head(attrs)
             req  == AttributeRequest(schema, a, config, prior, plan)
             resp == RunPlanModifiers(schema[a].PlanModifiers, req, NewResponse(req))
         IN resp.Diagnostics \o SchemaModifyPlan(schema, Tail(attrs), config, prior, plan)

\* Faulty variant of the resource's handler, against which the properties below are exercised.
testMultiFieldResourceCreate_SwapsFields(plan) ==
    [plan EXCEPT !.id = plan.immutable_string, !.immutable_string = plan.mutable_field]

\* testMultiFieldResource.Create: plan.ID = plan.ImmutableString; state := plan.
testMultiFieldResourceCreate(plan) ==
    [plan EXCEPT !.id = plan.immutable_string]

\* testMultiFieldResource.Read: state := state.
testMultiFieldResourceRead(state) == state

\* Faulty variant of the resource's handler, against which the properties below are exercised.
testMultiFieldResourceUpdate_KeepsState(plan, state) == state

\* testMultiFieldResource.Update: state.MutableField = plan.MutableField; state := state.
testMultiFieldResourceUpdate(plan, state) ==
    [state EXCEPT !.mutable_field = plan.mutable_field]

\* A test step with a configuration: plan it against the stored state.
PlanStep ==
    /\ tfPhase \in {"idle", "rejected"}
    /\ \E config \in StepConfigs :
         LET plan  == ProposedNewState(testMultiFieldResourceSchema, config, tfState)
             diags == SchemaModifyPlan(testMultiFieldResourceSchema, ResourceAttrs,
                                       config, tfState, plan)
         IN /\ tfConfig' = config
            /\ tfPlan' = plan
            /\ tfDiags' = diags
            /\ tfPhase' = IF HasError(diags) THEN "rejected" ELSE "planned"
    /\ UNCHANGED <<tfState, tfCreatedWith, tfLastCall, guardVars, schemaVars, mergeVars, convVars, reconVars, copyVars, crudVars, trigVars>>

\* The destroy at the end of a test case: a null plan; no attribute plan
\* modifier runs on a plan that has nothing to modify.
PlanDestroy ==
    /\ tfPhase \in {"idle", "rejected"}
    /\ tfState # NullRaw
    /\ tfConfig' = NullRaw
    /\ tfPlan' = NullRaw
    /\ tfDiags' = << >>
    /\ tfPhase' = "planned"
    /\ UNCHANGED <<tfState, tfCreatedWith, tfLastCall, guardVars, schemaVars, mergeVars, convVars, reconVars, copyVars, crudVars, trigVars>>

ApplyCreate ==
    /\ tfPhase = "planned" /\ tfState = NullRaw /\ tfPlan # NullRaw
    /\ tfState' = testMultiFieldResourceCreate(tfPlan)
    /\ tfCreatedWith' = tfPlan
    /\ tfLastCall' = [op |-> "Create", plan |-> tfPlan, state |-> tfState]
    /\ tfPhase' = "idle"
    /\ UNCHANGED <<tfConfig, tfPlan, tfDiags, guardVars, schemaVars, mergeVars, convVars, reconVars, copyVars, crudVars, trigVars>>

ApplyUpdate ==
    /\ tfPhase = "planned" /\ tfState # NullRaw /\ tfPlan # NullRaw
    /\ tfPlan # tfState
    /\ tfState' = testMultiFieldResourceUpdate(tfPlan, tfState)
    /\ tfLastCall' = [op |-> "Update", plan |-> tfPlan, state |-> tfState]
    /\ tfPhase' = "idle"
    /\ UNCHANGED <<tfConfig, tfPlan, tfDiags, tfCreatedWith, guardVars, schemaVars, mergeVars, convVars, reconVars, copyVars, crudVars, trigVars>>

\* A plan equal to the stored state changes nothing: no CRUD method is called.
ApplyNoChange ==
    /\ tfPhase = "planned" /\ tfState # NullRaw /\ tfPlan = tfState
    /\ tfPhase' = "idle"
    /\ UNCHANGED <<tfState, tfConfig, tfPlan, tfDiags, tfCreatedWith, tfLastCall,
                   guardVars, schemaVars, mergeVars, convVars, reconVars, copyVars, crudVars, trigVars>>

\* testMultiFieldResource.Delete is a no-op; the framework clears the state.
ApplyDelete ==
    /\ tfPhase = "planned" /\ tfState # NullRaw /\ tfPlan = NullRaw
    /\ tfState' = NullRaw
    /\ tfCreatedWith' = NullRaw
    /\ tfLastCall' = [op |-> "Delete", plan |-> tfPlan, state |-> tfState]
    /\ tfPhase' = "idle"
    /\ UNCHANGED <<tfConfig, tfPlan, tfDiags, guardVars, schemaVars, mergeVars, convVars, reconVars, copyVars, crudVars, trigVars>>

\* The refresh before a step's plan.
RefreshRead ==
    /\ tfPhase \in {"idle", "rejected"} /\ tfState # NullRaw
    /\ tfState' = testMultiFieldResourceRead(tfState)
    /\ tfLastCall' = [op |-> "Read", plan |-> NullRaw, state |-> tfState]
    /\ UNCHANGED <<tfConfig, tfPlan, tfDiags, tfPhase, tfCreatedWith,
                   guardVars, schemaVars, mergeVars, convVars, reconVars, copyVars, crudVars, trigVars>>

InitLife ==
    /\ tfState = NullRaw /\ tfConfig = NullRaw /\ tfPlan = NullRaw /\ tfDiags = << >>
    /\ tfPhase = "idle" /\ tfCreatedWith = NullRaw
    /\ tfLastCall = [op |-> "none", plan |-> NullRaw, state |-> NullRaw]
    /\ GuardIdle /\ SchemaIdle /\ MergeIdle /\ MergeObjIdle /\ ConvIdle /\ ReconIdle /\ CopyIdle /\ CrudIdle /\ TrigIdle

NextLife ==
    \/ PlanStep
    \/ PlanDestroy
    \/ ApplyCreate
    \/ ApplyUpdate
    \/ ApplyNoChange
    \/ ApplyDelete
    \/ RefreshRead

SpecLife == InitLife /\ [][NextLife]_vars

(***************************************************************************)
(* Resource schema generation and IdsecResource.Schema.                    *)
(*                                                                         *)
(* A record type (reflect.Type of a struct) is a sequence of fields; a     *)
(* field carries its Go name, its tags, whether it is exported, the kind   *)
(* of its type (after pointer dereference), the kind of its element type   *)
(* for slices and maps, and the fields of its type when it is an embedded  *)
(* struct.  The field kinds of the model are String, Bool, Int, Float64,   *)
(* Slice, Map and Interface, and Struct for squashed embedded records.     *)
(***************************************************************************)
NoFields == << >>

StructField(name, mapstructure, json, kind, elemKind) ==
    [Name |-> name, mapstructure |-> mapstructure, flag |-> "", json |-> json,
     exported |-> TRUE, Kind |-> kind, ElemKind |-> elemKind,
     required |-> "", validate |-> "", choices |-> "", default |-> "", forcenew |-> "",
     Embedded |-> NoFields]

\* resolveFieldsSquashed: the flattened field list; ",squash" fields contribute
\* their own fields, "-" fields and unexported fields are dropped.
RECURSIVE resolveFieldsSquashed(_)
resolveFieldsSquashed(schema) ==
    IF schema = << >> THEN << >>
    ELSE LET field == Head(schema)
             rest  == resolveFieldsSquashed(Tail(schema))
         IN IF field.mapstructure = ",squash" THEN resolveFieldsSquashed(field.Embedded) \o rest
            ELSE IF field.mapstructure = "-" THEN rest
            ELSE IF ~field.exported THEN rest
            ELSE <<field>> \o rest

\* strings.Split(tag, ",")[0] on the tags of the model's fields.
TagName(tag) == IF tag = ",squash" THEN "" ELSE tag

\* strcase.ToSnake on the names the model's fields use.
ToSnake(name) ==
    CASE name = "Name"       -> "name"
      [] name = "Region"     -> "region"
      [] name = "Count"      -> "count"
      [] name = "Enabled"    -> "enabled"
      [] name = "Tags"       -> "tags"
      [] name = "Labels"     -> "labels"
      [] name = "Ratio"      -> "ratio"
      [] name = "Extra"      -> "extra"
      [] name = "ID"         -> "id"
      [] name = "platformId" -> "platform_id"
      [] name = "PlatformID" -> "platform_id"
      [] name = "Status"     -> "status"
      [] OTHER               -> name

\* resolveFieldName: mapstructure tag > flag tag > json tag > field name.
resolveFieldName(field) ==
    IF TagName(field.mapstructure) # "" THEN ToSnake(TagName(field.mapstructure))
    ELSE IF TagName(field.flag) # "" THEN ToSnake(TagName(field.flag))
    ELSE IF TagName(field.json) # "" THEN ToSnake(TagName(field.json))
    ELSE ToSnake(field.Name)

simpleTypes == {"String", "Bool", "Int", "Float64"}

\* reflectTypeToTerraformType on the simple kinds.
reflectTypeToTerraformType(kind) ==
    CASE kind = "String"  -> StringType
      [] kind = "Bool"    -> BoolType
      [] kind = "Int"     -> Int64Type
      [] kind = "Float64" -> [k |-> "Float64"]

NoAttribute == [Kind |-> "none"]

SchemaAttribute(kind, elemType, required, sensitive, default, validators, planModifiers) ==
    [Kind |-> kind, ElementType |-> elemType,
     Optional |-> ~required, Required |-> required, Computed |-> ~required,
     Sensitive |-> sensitive, Default |-> default,
     Validators |-> validators, PlanModifiers |-> planModifiers]

ComputedAttribute(kind, elemType, sensitive) ==
    [Kind |-> kind, ElementType |-> elemType,
     Optional |-> TRUE, Required |-> FALSE, Computed |-> TRUE,
     Sensitive |-> sensitive, Default |-> "",
     Validators |-> << >>, PlanModifiers |-> << >>]

NoElem == [k |-> "none"]

\* The attribute resourceSchemaAttrsFromStruct derives for one field (one pass of
\* its loop body); NoAttribute when the field is skipped.
FieldAttribute(field, fieldName, setAsComputed, sensitiveAttrs, extraRequiredAttrs, computedAsSetAttrs) ==
    LET isRequired  == field.required = "true" \/ field.validate = "required"
                       \/ fieldName \in extraRequiredAttrs
        isSensitive == fieldName \in sensitiveAttrs
        isForceNew  == field.forcenew = "true"
        hasDefault  == field.default # ""
        modifiers   == IF isForceNew THEN <<"RequiresReplace">> ELSE << >>
        choices(v)  == IF field.choices # "" THEN <<[validator |-> v, choices |-> field.choices]>>
                       ELSE << >>
    IN CASE field.Kind = "String" ->
              IF setAsComputed THEN ComputedAttribute("String", NoElem, isSensitive)
              ELSE SchemaAttribute("String", NoElem, isRequired /\ ~hasDefault, isSensitive,
                                   field.default, choices("StringInChoices"), modifiers)
         [] field.Kind = "Bool" ->
              IF setAsComputed THEN ComputedAttribute("Bool", NoElem, isSensitive)
              ELSE SchemaAttribute("Bool", NoElem, isRequired /\ ~hasDefault, isSensitive,
                                   field.default, << >>, modifiers)
         [] field.Kind = "Int" ->
              IF setAsComputed THEN ComputedAttribute("Int64", NoElem, isSensitive)
              ELSE SchemaAttribute("Int64", NoElem, isRequired /\ ~hasDefault, isSensitive,
                                   field.default, << >>, modifiers)
         [] field.Kind = "Slice" ->
              IF field.ElemKind = "Interface"
              THEN (IF setAsComputed THEN ComputedAttribute("Dynamic", NoElem, isSensitive)
                    ELSE SchemaAttribute("Dynamic", NoElem, isRequired, isSensitive, "",
                                         << >>, << >>))
              ELSE IF field.ElemKind \in simpleTypes
              THEN LET terraType == reflectTypeToTerraformType(field.ElemKind)
                       kind == IF fieldName \in computedAsSetAttrs THEN "Set" ELSE "List"
                       v    == IF fieldName \in computedAsSetAttrs THEN "SliceInSet"
                               ELSE "SliceInChoices"
                   IN IF setAsComputed THEN ComputedAttribute(kind, terraType, isSensitive)
                      ELSE SchemaAttribute(kind, terraType, isRequired /\ ~hasDefault,
                                           isSensitive, field.default, choices(v), modifiers)
              ELSE NoAttribute
         [] field.Kind = "Map" ->
              IF field.ElemKind = "Interface"
              THEN (IF setAsComputed THEN ComputedAttribute("Dynamic", NoElem, isSensitive)
                    ELSE SchemaAttribute("Dynamic", NoElem, isRequired, isSensitive, "",
                                         << >>, << >>))
              ELSE IF field.ElemKind \in simpleTypes
              THEN LET terraType == reflectTypeToTerraformType(field.ElemKind)
                   IN IF setAsComputed THEN ComputedAttribute("Map", terraType, isSensitive)
                      ELSE SchemaAttribute("Map", terraType, isRequired, isSensitive, "",
                                           << >>, modifiers)
              ELSE NoAttribute
         [] field.Kind = "Interface" ->
              IF setAsComputed THEN ComputedAttribute("Dynamic", NoElem, isSensitive)
              ELSE SchemaAttribute("Dynamic", NoElem, isRequired, isSensitive, "", << >>, << >>)
         [] OTHER -> NoAttribute

\* attributes[fieldName] = attr
PutAttribute(attributes, fieldName, attribute) ==
    [name \in DOMAIN attributes \cup {fieldName} |->
        IF name = fieldName THEN attribute ELSE attributes[name]]

RECURSIVE schemaAttrsLoop(_, _, _, _, _, _)
schemaAttrsLoop(fields, attributes, setAsComputed, sensitiveAttrs, extraRequiredAttrs, computedAsSetAttrs) ==
    IF fields = << >> THEN attributes
    ELSE LET field     == Head(fields)
             fieldName == resolveFieldName(field)
             attribute == FieldAttribute(field, fieldName, setAsComputed, sensitiveAttrs,
                                         extraRequiredAttrs, computedAsSetAttrs)
         IN schemaAttrsLoop(Tail(fields),
                IF attribute = NoAttribute THEN attributes
                ELSE PutAttribute(attributes, fieldName, attribute),
                setAsComputed, sensitiveAttrs, extraRequiredAttrs, computedAsSetAttrs)

\* resourceSchemaAttrsFromStruct(inputModel, setAsComputed, sensitiveAttrs,
\*                               extraRequiredAttrs, computedAsSetAttrs)
resourceSchemaAttrsFromStruct(inputModel, setAsComputed, sensitiveAttrs, extraRequiredAttrs, computedAsSetAttrs) ==
    schemaAttrsLoop(resolveFieldsSquashed(inputModel), EmptyMap, setAsComputed,
                    sensitiveAttrs, extraRequiredAttrs, computedAsSetAttrs)

NilModel == [nil |-> TRUE]

\* for key, attr := range from { if _, exists := into[key]; !exists { into[key] = attr } }
AddMissing(into, from) ==
    [name \in DOMAIN into \cup DOMAIN from |->
        IF name \in DOMAIN into THEN into[name] ELSE from[name]]

\* GenerateResourceSchemaFromStruct(createModel, updateModel, stateModel,
\*     sensitiveAttrs, extraRequiredAttrs, computedAsSetAttrs): the attributes of
\* the create model, then those of the update and state models that are missing,
\* as computed attributes.  The function has no parameter for, and attaches no
\* plan modifier from, a list of immutable attributes.
GenerateResourceSchemaFromStruct(createModel, updateModel, stateModel, sensitiveAttrs, extraRequiredAttrs, computedAsSetAttrs) ==
    LET schemaAttrs == resourceSchemaAttrsFromStruct(createModel, FALSE, sensitiveAttrs,
                                                     extraRequiredAttrs, computedAsSetAttrs)
        withUpdate  == IF updateModel # NilModel
                       THEN AddMissing(schemaAttrs,
                               resourceSchemaAttrsFromStruct(updateModel, TRUE, sensitiveAttrs,
                                   extraRequiredAttrs, computedAsSetAttrs))
                       ELSE schemaAttrs
        withState   == IF stateModel # NilModel
                       THEN AddMissing(withUpdate,
                               resourceSchemaAttrsFromStruct(stateModel, TRUE, sensitiveAttrs,
                                   extraRequiredAttrs, computedAsSetAttrs))
                       ELSE withUpdate
    IN [Attributes |-> withState]

\* IdsecResource.schemaForOperation: nil for an unsupported operation, an error
\* for a missing mapping, otherwise a copy of the operation's prototype (schema
\* generation reads only the record type of the copy).
schemaForOperation(definition, operation) ==
    IF operation \notin definition.SupportedOperations
    THEN [schema |-> NilModel, err |-> FALSE]
    ELSE IF operation \notin DOMAIN definition.ActionsMappings
    THEN [schema |-> NilModel, err |-> TRUE]
    ELSE IF definition.ActionsMappings[operation] \notin DOMAIN definition.Schemas
    THEN [schema |-> NilModel, err |-> TRUE]
    ELSE [schema |-> definition.Schemas[definition.ActionsMappings[operation]], err |-> FALSE]

\* IdsecResource.getImmutableAttributes
getImmutableAttributes(definition) == definition.ImmutableAttributes

\* IdsecResource.Schema
IdsecResourceSchema(definition) ==
    LET createSchema == schemaForOperation(definition, "create")
        updateSchema == schemaForOperation(definition, "update")
    IN IF definition.Schemas = NilModel \/ createSchema.err \/ updateSchema.err
       THEN [Diagnostics |-> <<[severity |-> "error", summary |-> "Schema Error"]>>,
             Schema |-> [Attributes |-> EmptyMap]]
       ELSE [Diagnostics |-> << >>,
             Schema |-> GenerateResourceSchemaFromStruct(createSchema.schema,
                            updateSchema.schema, definition.StateSchema,
                            definition.SensitiveAttributes,
                            definition.ExtraRequiredAttributes,
                            definition.ComputedAsSetAttributes)]

\* The record types the action definitions of the model are built from.
fName    == [StructField("Name", "name", "", "String", "none") EXCEPT !.required = "true"]
fRegion  == [StructField("Region", "region", "", "String", "none") EXCEPT !.forcenew = "true"]
fCount   == [StructField("Count", "", "count", "Int", "none") EXCEPT !.default = "3"]
fEnabled == StructField("Enabled", "", "", "Bool", "none")
fTags    == StructField("Tags", "tags", "", "Slice", "String")
fLabels  == StructField("Labels", "labels", "", "Map", "String")
fRatio   == StructField("Ratio", "ratio", "", "Float64", "none")
fExtra   == StructField("Extra", "extra", "", "Interface", "none")
fIgnored == StructField("Internal", "-", "", "String", "none")
fSecret  == [StructField("secret", "", "", "String", "none") EXCEPT !.exported = FALSE]
fID      == StructField("ID", "", "id", "String", "none")
fStatus  == StructField("Status", "", "", "String", "none")
fBase    == [StructField("Base", ",squash", "", "Struct", "none") EXCEPT !.Embedded = <<fID, fSecret>>]

OptionalFields == <<fRegion, fCount, fEnabled, fTags, fLabels>>

RECURSIVE PickFields(_, _)
PickFields(fields, chosen) ==
    IF fields = << >> THEN << >>
    ELSE (IF resolveFieldName(Head(fields)) \in chosen THEN <<Head(fields)>> ELSE << >>)
         \o PickFields(Tail(fields), chosen)

OptionalNames == {"region", "count", "enabled", "tags", "labels"}

\* A field whose wire name is that of the ID field of the squashed Base record.
fIdentifier == StructField("Identifier", "id", "", "Int", "none")

CreateModels == {<<fName>> \o PickFields(OptionalFields, chosen) \o <<fRatio, fIgnored>> :
                    chosen \in SUBSET OptionalNames}
                \cup {<<fBase, fName, fIdentifier>>}
UpdateModels == {NilModel, <<fName, fEnabled, fExtra>>}
StateModel   == <<fBase, fName, fRegion, fCount, fEnabled, fTags, fLabels, fStatus>>

ImmutableChoices == SUBSET {"name", "count", "enabled", "tags"}

ActionDefinitions ==
    {[SupportedOperations |-> IF update = NilModel THEN {"create", "read", "delete"}
                              ELSE {"create", "read", "update", "delete"},
      ActionsMappings |-> [op \in {"create", "read", "update", "delete"} |-> op],
      Schemas |-> IF update = NilModel THEN [op \in {"create"} |-> create]
                  ELSE [op \in {"create", "update"} |-> IF op = "create" THEN create ELSE update],
      StateSchema |-> StateModel,
      SensitiveAttributes |-> {},
      ExtraRequiredAttributes |-> {},
      ComputedAsSetAttributes |-> {},
      ImmutableAttributes |-> immutable] :
        create \in CreateModels, update \in UpdateModels, immutable \in ImmutableChoices}

CallSchema ==
    /\ actionDefinition # Idle /\ respSchema = Idle
    /\ respSchema' = IdsecResourceSchema(actionDefinition)
    /\ UNCHANGED <<actionDefinition, schemaPlan, guardVars, lifeVars, mergeVars, convVars, reconVars, copyVars, crudVars, trigVars>>

\* Sample (state value, changed plan value) of each attribute kind.
ChangeOfKind(kind, elemType) ==
    CASE kind = "String" -> <<StringValue("old-value"), StringValue("new-value")>>
      [] kind = "Int64"  -> <<Int64Value(42), Int64Value(99)>>
      [] kind = "Bool"   -> <<BoolValue(TRUE), BoolValue(FALSE)>>
      [] kind = "List"   -> <<ListKnown(elemType, <<StringValue("a")>>), ListKnown(elemType, << >>)>>
      [] kind = "Set"    -> <<SetKnown(elemType, {StringValue("a")}), SetKnown(elemType, {})>>
      [] kind = "Map"    -> <<MapKnown(elemType, [key \in {"k"} |-> StringValue("a")]),
                              MapKnown(elemType, EmptyMap)>>

\* terraform plan of an update that changes one attribute of an existing
\* resource: the plan modifiers the generated schema attaches to it run.
PlanAttributeChange ==
    /\ respSchema # Idle /\ schemaPlan = Idle
    /\ \E name \in DOMAIN respSchema.Schema.Attributes :
         LET attribute == respSchema.Schema.Attributes[name]
         IN /\ attribute.Kind \in {"String", "Int64", "Bool", "List", "Set", "Map"}
            /\ LET change == ChangeOfKind(attribute.Kind, attribute.ElementType)
                   req == [StateRawIsNull |-> FALSE, PlanRawIsNull |-> FALSE, Path |-> name,
                           StateValue |-> change[1], PlanValue |-> change[2],
                           ConfigValue |-> change[2]]
                   resp == RunPlanModifiers(attribute.PlanModifiers, req, NewResponse(req))
               IN schemaPlan' = [attribute |-> name, req |-> req, resp |-> resp]
    /\ UNCHANGED <<actionDefinition, respSchema, guardVars, lifeVars, mergeVars, convVars, reconVars, copyVars, crudVars, trigVars>>

InitSchema ==
    /\ actionDefinition \in ActionDefinitions
    /\ respSchema = Idle /\ schemaPlan = Idle
    /\ GuardIdle /\ LifeIdle /\ MergeIdle /\ MergeObjIdle /\ ConvIdle /\ ReconIdle /\ CopyIdle /\ CrudIdle /\ TrigIdle

NextSchema ==
    \/ CallSchema
    \/ PlanAttributeChange

SpecSchema == InitSchema /\ [][NextSchema]_vars

(***************************************************************************)
(* The attribute-tree merge of the converters (unnamed/part_006).          *)
(*                                                                         *)
(* A map[string]attr.Value is a function from attribute names to values;   *)
(* an absent key is a name outside its DOMAIN.  The merge functions of the *)
(* source write existingAttrs[key]; here each returns the value it writes, *)
(* and mergePlanAndStateMap returns existingAttrs after the loop.          *)
(***************************************************************************)
MaxLen == 2

\* types.ObjectValue: the known object, or (with error diagnostics, which the
\* merge discards) an Unknown object when an attribute is missing, extra or of
\* another type than declared.
ObjectValue(attributeTypes, attributes) ==
    IF /\ DOMAIN attributes = DOMAIN attributeTypes
       /\ \A name \in DOMAIN attributeTypes : TypeOf(attributes[name]) = attributeTypes[name]
    THEN ObjectKnown(attributeTypes, attributes)
    ELSE ObjectUnknown(attributeTypes)

\* types.MapValue / types.ListValue / types.SetValue: Unknown when an element is
\* of another type than the element type.
MapValue(elementType, elements) ==
    IF \A name \in DOMAIN elements : TypeOf(elements[name]) = elementType
    THEN MapKnown(elementType, elements)
    ELSE MapUnknown(elementType)

ListValue(elementType, elements) ==
    IF \A n \in DOMAIN elements : TypeOf(elements[n]) = elementType
    THEN ListKnown(elementType, elements)
    ELSE ListUnknown(elementType)

SetValue(elementType, elements) ==
    IF \A element \in elements : TypeOf(element) = elementType
    THEN SetKnown(elementType, elements)
    ELSE SetUnknown(elementType)

RECURSIVE mergePlanAndStateMap(_, _)
RECURSIVE mergeObjectAttribute(_, _, _)
RECURSIVE mergeMapAttribute(_, _, _)
RECURSIVE mergeListAttribute(_, _, _)

\* Faulty variants of the merge, against which the properties below are exercised.
mergePlanAndStateMap_NoSkip(existingAttrs, attrsToMerge) ==
    [key \in DOMAIN existingAttrs \cup DOMAIN attrsToMerge |->
        IF key \notin DOMAIN attrsToMerge THEN existingAttrs[key]
        ELSE LET planVal == attrsToMerge[key]
             IN CASE planVal.k = "Object" -> mergeObjectAttribute(existingAttrs, key, planVal)
                  [] planVal.k = "Map"    -> mergeMapAttribute(existingAttrs, key, planVal)
                  [] planVal.k = "List"   -> mergeListAttribute(existingAttrs, key, planVal)
                  [] OTHER                -> planVal]

mergeListAttribute_Replace(existingAttrs, key, planVal) == planVal

mergeMapAttribute_AnyElementKeyByKey(existingAttrs, key, planVal) ==
    IF planVal.k # "Map" THEN planVal
    ELSE IF key \notin DOMAIN existingAttrs THEN planVal
    ELSE IF existingAttrs[key].k # "Map" THEN planVal
    ELSE LET existingElems == existingAttrs[key].v
             planElems     == planVal.v
         IN MapValue(planVal.et,
                [k \in DOMAIN existingElems \cup DOMAIN planElems |->
                    IF k \in DOMAIN planElems THEN planElems[k] ELSE existingElems[k]])

mergeObjectAttribute_NoCopy(existingAttrs, key, planVal) ==
    IF planVal.k # "Object" THEN planVal
    ELSE IF key \notin DOMAIN existingAttrs THEN planVal
    ELSE IF existingAttrs[key].k # "Object" THEN planVal
    ELSE ObjectValue(existingAttrs[key].at, mergePlanAndStateMap(EmptyMap, planVal.v))

mergeObjectAttribute(existingAttrs, key, planVal) ==
    IF planVal.k # "Object" THEN planVal
    ELSE IF key \notin DOMAIN existingAttrs THEN planVal
    ELSE IF existingAttrs[key].k # "Object" THEN planVal
    ELSE LET existingObj == existingAttrs[key]
             mergedInner == mergePlanAndStateMap(existingObj.v, planVal.v)
         IN ObjectValue(existingObj.at, mergedInner)

mergeMapAttribute(existingAttrs, key, planVal) ==
    IF planVal.k # "Map" THEN planVal
    ELSE IF key \notin DOMAIN existingAttrs THEN planVal
    ELSE IF existingAttrs[key].k # "Map" THEN planVal
    ELSE IF planVal.et.k # "Object" THEN planVal
    ELSE LET existingElems == existingAttrs[key].v
             planElems     == planVal.v
             merged(k) ==
                 IF k \notin DOMAIN planElems THEN existingElems[k]
                 ELSE IF IsNull(planElems[k]) \/ IsUnknown(planElems[k]) THEN existingElems[k]
                 ELSE IF k \notin DOMAIN existingElems THEN planElems[k]
                 ELSE IF planElems[k].k # "Object" \/ existingElems[k].k # "Object"
                 THEN planElems[k]
                 ELSE ObjectValue(existingElems[k].at,
                          mergePlanAndStateMap(existingElems[k].v, planElems[k].v))
             mergedMapValues ==
                 [k \in DOMAIN existingElems \cup
                        {p \in DOMAIN planElems : ~IsNull(planElems[p]) /\ ~IsUnknown(planElems[p])}
                    |-> merged(k)]
         IN MapValue(planVal.et, mergedMapValues)

mergeListAttribute(existingAttrs, key, planVal) ==
    IF planVal.k # "List" THEN planVal
    ELSE IF planVal.et.k # "Object" THEN planVal
    ELSE IF key \notin DOMAIN existingAttrs THEN planVal
    ELSE IF existingAttrs[key].k # "List" THEN planVal
    ELSE IF IsNull(existingAttrs[key]) \/ IsUnknown(existingAttrs[key]) THEN planVal
    ELSE LET planElems     == planVal.v
             existingElems == existingAttrs[key].v
             merged(n) ==
                 LET planElem == planElems[n]
                 IN IF IsNull(planElem) \/ IsUnknown(planElem)
                    THEN (IF n <= Len(existingElems) THEN existingElems[n] ELSE planElem)
                    ELSE IF planElem.k # "Object" \/ n > Len(existingElems) THEN planElem
                    ELSE IF \/ existingElems[n].k # "Object"
                            \/ IsNull(existingElems[n]) \/ IsUnknown(existingElems[n])
                    THEN planElem
                    ELSE ObjectValue(existingElems[n].at,
                             mergePlanAndStateMap(existingElems[n].v, planElem.v))
             mergedElems == [n \in 1..Len(planElems) |-> merged(n)]
         IN ListValue(planVal.et, mergedElems)

mergeSetAttribute(existingAttrs, key, planVal) ==
    IF planVal.k # "Set" THEN planVal
    ELSE IF planVal.et.k # "Object" THEN planVal
    ELSE LET cleanedElems == {elem \in planVal.v : ~IsNull(elem) /\ ~IsUnknown(elem)}
         IN SetValue(planVal.et, cleanedElems)

mergePlanAndStateMap(existingAttrs, attrsToMerge) ==
    LET skipped(key) == IsNull(attrsToMerge[key]) \/ IsUnknown(attrsToMerge[key])
    IN [key \in DOMAIN existingAttrs \cup {m \in DOMAIN attrsToMerge : ~skipped(m)} |->
           IF key \notin DOMAIN attrsToMerge THEN existingAttrs[key]
           ELSE IF skipped(key) THEN existingAttrs[key]
           ELSE LET planVal == attrsToMerge[key]
                IN CASE planVal.k = "Object" -> mergeObjectAttribute(existingAttrs, key, planVal)
                     [] planVal.k = "Map"    -> mergeMapAttribute(existingAttrs, key, planVal)
                     [] planVal.k = "List"   -> mergeListAttribute(existingAttrs, key, planVal)
                     [] planVal.k = "Set"    -> mergeSetAttribute(existingAttrs, key, planVal)
                     [] OTHER                -> planVal]

\* The attribute trees the merge is applied to.
StringAttrs == {StringNull, StringUnknown, StringValue("a"), StringValue("b")}

InnerAttrTypes == [name \in {"status", "note"} |-> StringType]
InnerType == ObjectType(InnerAttrTypes)
InnerObject(status, note) ==
    ObjectKnown(InnerAttrTypes,
        [name \in {"status", "note"} |-> IF name = "status" THEN status ELSE note])

InnerObjects ==
    {ObjectNull(InnerAttrTypes), ObjectUnknown(InnerAttrTypes),
     InnerObject(StringValue("a"), StringNull),
     InnerObject(StringValue("b"), StringValue("a")),
     InnerObject(StringNull, StringValue("b")),
     InnerObject(StringUnknown, StringNull)}

ListElements == InnerObjects \ {InnerObject(StringUnknown, StringNull)}

OuterAttrTypes == [name \in {"name", "inner"} |-> IF name = "name" THEN StringType ELSE InnerType]
OuterObject(name, inner) ==
    ObjectKnown(OuterAttrTypes,
        [attribute \in {"name", "inner"} |-> IF attribute = "name" THEN name ELSE inner])

OuterObjects ==
    {ObjectNull(OuterAttrTypes), ObjectUnknown(OuterAttrTypes)} \cup
    {OuterObject(name, inner) : name \in {StringNull, StringValue("a")}, inner \in InnerObjects}

\* Every map over a subset of the keys.
MapsOver(keys, values) == UNION {[chosen -> values] : chosen \in SUBSET keys}
\* Every sequence of at most MaxLen elements.
ListsOver(values) == UNION {[1..n -> values] : n \in 0..MaxLen}

InnerMaps ==
    {MapNull(InnerType), MapUnknown(InnerType)} \cup
    {MapKnown(InnerType, elements) : elements \in MapsOver({"k1", "k2"}, InnerObjects)}
InnerLists ==
    {ListNull(InnerType), ListUnknown(InnerType)} \cup
    {ListKnown(InnerType, elements) : elements \in ListsOver(ListElements)}
InnerSets ==
    {SetNull(InnerType), SetUnknown(InnerType)} \cup
    {SetKnown(InnerType, elements) :
        elements \in SUBSET {ObjectNull(InnerAttrTypes), ObjectUnknown(InnerAttrTypes),
                             InnerObject(StringValue("a"), StringNull)}}
StringMaps ==
    {MapNull(StringType)} \cup
    {MapKnown(StringType, elements) :
        elements \in MapsOver({"k1", "k2"}, {StringNull, StringValue("a")})}
StringLists ==
    {ListNull(StringType)} \cup
    {ListKnown(StringType, elements) : elements \in ListsOver({StringNull, StringValue("a")})}
StringSets ==
    {SetNull(StringType)} \cup
    {SetKnown(StringType, elements) : elements \in SUBSET {StringNull, StringUnknown, StringValue("a")}}

\* An object holding a set of objects.
TaggedAttrTypes == [name \in {"tags"} |-> SetType(InnerType)]
TaggedObjects ==
    {ObjectNull(TaggedAttrTypes)} \cup
    {ObjectKnown(TaggedAttrTypes, [name \in {"tags"} |-> tags]) : tags \in InnerSets}

\* existingAttrs / attrsToMerge holding one attribute, the existing side also
\* without it or with a value of another type under the same name.
OneAttr(key, values) == {[name \in {key} |-> value] : value \in values}
MergePairs(key, values) ==
    {[existing |-> existing, incoming |-> incoming] :
        existing \in {EmptyMap} \cup OneAttr(key, values \cup {StringValue("a")}),
        incoming \in OneAttr(key, values)}

MergeInputs ==
    {[existing |-> existing, incoming |-> incoming] :
        existing \in MapsOver({"s", "n"}, StringAttrs),
        incoming \in MapsOver({"s", "n"}, StringAttrs)}
    \cup MergePairs("o", OuterObjects)
    \cup MergePairs("m", InnerMaps)
    \cup MergePairs("l", InnerLists)
    \cup MergePairs("st", InnerSets)
    \cup MergePairs("ms", StringMaps)
    \cup MergePairs("ls", StringLists)
    \cup MergePairs("ss", StringSets)
    \cup MergePairs("t", TaggedObjects)

CallMergePlanAndStateMap ==
    /\ mergeExisting # Idle /\ mergeResult = Idle
    /\ mergeResult' = mergePlanAndStateMap(mergeExisting, mergeIncoming)
    /\ UNCHANGED <<mergeExisting, mergeIncoming, guardVars, lifeVars, schemaVars, convVars, reconVars, copyVars, crudVars, trigVars>>

InitMerge ==
    /\ \E input \in MergeInputs :
          mergeExisting = input.existing /\ mergeIncoming = input.incoming
    /\ mergeResult = Idle
    /\ GuardIdle /\ LifeIdle /\ SchemaIdle /\ MergeObjIdle /\ ConvIdle /\ ReconIdle /\ CopyIdle /\ CrudIdle /\ TrigIdle

NextMerge == CallMergePlanAndStateMap

SpecMerge == InitMerge /\ [][NextMerge]_vars

(***************************************************************************)
(* MergePlanToStateObject (unnamed/part_006).                              *)
(***************************************************************************)
\* types.Object{}: the zero value returned next to an error.
ZeroObject == ObjectNull(EmptyMap)

\* The attributes that are neither Null nor Unknown.
KnownAttributes(attrs) ==
    [key \in {k \in DOMAIN attrs : ~IsNull(attrs[k]) /\ ~IsUnknown(attrs[k])} |-> attrs[key]]

MergePlanToStateObject_NoDelete(planObj, stateResult, schemaAttrs) ==
    LET merged == mergePlanAndStateMap(KnownAttributes(stateResult.v), planObj.v)
        filled == [key \in DOMAIN merged \cup DOMAIN schemaAttrs |->
                      IF key \in DOMAIN merged THEN merged[key] ELSE NullOf(schemaAttrs[key])]
        objVal == ObjectValue(schemaAttrs, filled)
    IN IF IsUnknown(objVal) THEN [obj |-> ZeroObject, err |-> TRUE]
       ELSE [obj |-> objVal, err |-> FALSE]

MergePlanToStateObject_NoNullFill(planObj, stateResult, schemaAttrs) ==
    LET merged == mergePlanAndStateMap(KnownAttributes(stateResult.v), planObj.v)
        kept   == [key \in DOMAIN merged \cap DOMAIN schemaAttrs |-> merged[key]]
        objVal == ObjectValue(schemaAttrs, kept)
    IN IF IsUnknown(objVal) THEN [obj |-> ZeroObject, err |-> TRUE]
       ELSE [obj |-> objVal, err |-> FALSE]

\* MergePlanToStateObject(ctx, plan, stateResult, schemaAttrs), planObj being the
\* object plan.Get yields.
MergePlanToStateObject(planObj, stateResult, schemaAttrs) ==
    LET mergedAttrsValues == mergePlanAndStateMap(KnownAttributes(stateResult.v), planObj.v)
        filled == [key \in DOMAIN mergedAttrsValues \cup DOMAIN schemaAttrs |->
                      IF key \in DOMAIN mergedAttrsValues THEN mergedAttrsValues[key]
                      ELSE NullOf(schemaAttrs[key])]
        kept   == [key \in DOMAIN filled \cap DOMAIN schemaAttrs |-> filled[key]]
        objVal == ObjectValue(schemaAttrs, kept)
    IN IF IsUnknown(objVal) THEN [obj |-> ZeroObject, err |-> TRUE]
       ELSE [obj |-> objVal, err |-> FALSE]

\* Schemas, state objects and plan objects over the attributes s, n, o and ls.
FullAttrTypes ==
    [name \in {"s", "n", "o", "ls"} |->
        CASE name = "s"  -> StringType
          [] name = "n"  -> StringType
          [] name = "o"  -> InnerType
          [] name = "ls" -> ListType(StringType)]

AttrKeySets == {{"s", "n"}, {"s", "o"}, {"s", "n", "o", "ls"}}

SchemaAttrTypes == {[name \in keys |-> FullAttrTypes[name]] : keys \in AttrKeySets}

AttrValuesOf(name) ==
    CASE name = "s"  -> {StringNull, StringUnknown, StringValue("a")}
      [] name = "n"  -> {StringNull, StringValue("b")}
      [] name = "o"  -> {ObjectNull(InnerAttrTypes), InnerObject(StringValue("a"), StringNull),
                         InnerObject(StringNull, StringValue("b"))}
      [] name = "ls" -> {ListNull(StringType), ListKnown(StringType, <<StringValue("a")>>)}

\* A state object may hold n with another type than the schema declares.
StateValuesOf(name) ==
    IF name = "n" THEN AttrValuesOf(name) \cup {BoolValue(TRUE)} ELSE AttrValuesOf(name)

ObjectOver(attrs) == ObjectKnown([name \in DOMAIN attrs |-> TypeOf(attrs[name])], attrs)

PlanObjects ==
    {ObjectNull(EmptyMap)} \cup
    {ObjectOver(attrs) : attrs \in UNION {{f \in [keys -> UNION {AttrValuesOf(n) : n \in keys}] :
                                              \A n \in keys : f[n] \in AttrValuesOf(n)} :
                                          keys \in AttrKeySets}}
StateObjects ==
    {ObjectNull(EmptyMap)} \cup
    {ObjectOver(attrs) : attrs \in UNION {{f \in [keys -> UNION {StateValuesOf(n) : n \in keys}] :
                                              \A n \in keys : f[n] \in StateValuesOf(n)} :
                                          keys \in AttrKeySets}}

CallMergePlanToStateObject ==
    /\ mergeObjInput # Idle /\ mergeObjOutput = Idle
    /\ mergeObjOutput' = MergePlanToStateObject(mergeObjInput.planObj, mergeObjInput.stateResult,
                                                mergeObjInput.schemaAttrs)
    /\ UNCHANGED <<mergeObjInput, convInput, convOutput, guardVars, lifeVars, schemaVars, mergeVars, reconVars, copyVars, crudVars, trigVars>>

InitMergeObject ==
    /\ mergeObjInput \in [planObj : PlanObjects, stateResult : StateObjects,
                          schemaAttrs : SchemaAttrTypes]
    /\ mergeObjOutput = Idle
    /\ GuardIdle /\ LifeIdle /\ SchemaIdle /\ MergeIdle /\ ConvIdle /\ ReconIdle /\ CopyIdle /\ CrudIdle /\ TrigIdle

NextMergeObject == CallMergePlanToStateObject

SpecMergeObject == InitMergeObject /\ [][NextMergeObject]_vars

(***************************************************************************)
(* Decoding an object into a record: objectToMap, attrToInterface,         *)
(* findFieldByName and StructFromPlanObject (unnamed/part_006).            *)
(*                                                                         *)
(* Go values (interface{}): nil, string, int64, bool, []interface{},       *)
(* map[string]interface{} and pointers to them.  A map[string]interface{}  *)
(* result is a function from keys to Go values.                            *)
(***************************************************************************)
GoNil       == [g |-> "nil"]
GoString(s) == [g |-> "string", v |-> s]
GoInt64(i)  == [g |-> "int64", v |-> i]
GoBool(b)   == [g |-> "bool", v |-> b]
GoSlice(es) == [g |-> "slice", v |-> es]
GoMap(m)    == [g |-> "map", v |-> m]
GoPtr(x)    == [g |-> "ptr", elem |-> x]

\* reflect.Value.IsZero of the values attrToInterface produces (its slices and
\* maps are made, never nil).
IsZero(goVal) ==
    CASE goVal.g = "string" -> goVal.v = ""
      [] goVal.g = "int64"  -> goVal.v = 0
      [] goVal.g = "bool"   -> goVal.v = FALSE
      [] OTHER              -> FALSE

\* A field whose type is a pointer to the type of the given field.
PointerField(field) == [Pointer |-> TRUE] @@ field
\* actualField.Type.Kind() == reflect.Pointer
IsPointerField(field) == "Pointer" \in DOMAIN field

\* A prototype is a value of a record type (given by its fields), nil, or a
\* value of a type that is no struct.
StructPrototype(fields) == [struct |-> fields]
NilPrototype       == NilModel
NonStructPrototype == [nonstruct |-> TRUE]
IsStructPrototype(prototype) == "struct" \in DOMAIN prototype

NoField == [nofield |-> TRUE]

\* findFieldByName's loop over schemaType.Field(i): the first field whose
\* mapstructure tag, json tag or name is the attribute name; at a ",squash"
\* field the search of the embedded type is returned, found or not.
RECURSIVE findFieldIn(_, _)
findFieldIn(fields, name) ==
    IF fields = << >> THEN NoField
    ELSE LET field    == Head(fields)
             flagName == IF field.mapstructure # "" THEN field.mapstructure
                         ELSE IF field.json # "" THEN field.json
                         ELSE field.Name
         IN IF ~field.exported /\ field.mapstructure # ",squash"
            THEN findFieldIn(Tail(fields), name)
            ELSE IF TagName(flagName) = name THEN field
            ELSE IF field.mapstructure = ",squash" THEN findFieldIn(field.Embedded, name)
            ELSE findFieldIn(Tail(fields), name)

findFieldByName_SearchesOn(schema, name) ==
    IF ~IsStructPrototype(schema) \/ name = "" THEN NoField
    ELSE LET flat == resolveFieldsSquashed(schema.struct)
             hits == {n \in DOMAIN flat :
                        TagName(IF flat[n].mapstructure # "" THEN flat[n].mapstructure
                                ELSE IF flat[n].json # "" THEN flat[n].json
                                ELSE flat[n].Name) = name}
         IN IF hits = {} THEN NoField
            ELSE flat[CHOOSE n \in hits : \A other \in hits : n <= other]

findFieldByName(schema, name) ==
    IF ~IsStructPrototype(schema) \/ name = "" THEN NoField
    ELSE findFieldIn(schema.struct, name)

\* reflect.New(actualField.Type).Interface() as a prototype: the fields of a
\* struct-typed field; a pointer to anything else is no struct after one
\* dereference.
PrototypeOfField(field) ==
    IF field.Kind = "Struct" /\ ~IsPointerField(field) THEN StructPrototype(field.Embedded)
    ELSE NonStructPrototype

\* The element prototype attrToInterface derives for lists, sets and maps.
ElemPrototypeOfField(field) ==
    IF field = NoField THEN NilPrototype
    ELSE IF field.Kind \in {"Slice", "Map"} /\ field.ElemKind = "Struct"
    THEN StructPrototype(field.Embedded)
    ELSE IF field.Kind \in {"Slice", "Map"} THEN NonStructPrototype
    ELSE NilPrototype

\* Set.Elements(): the elements of a set value as a slice, in one order.
RECURSIVE ElementsOf(_)
ElementsOf(elements) ==
    IF elements = {} THEN << >>
    ELSE LET elem == CHOOSE e \in elements : TRUE
         IN <<elem>> \o ElementsOf(elements \ {elem})

RECURSIVE objectToMap(_, _)
RECURSIVE attrToInterface(_, _, _)

objectToMap_NullAsZero(obj, prototype) ==
    IF IsNull(obj) \/ IsUnknown(obj) THEN [result |-> GoNil, err |-> TRUE]
    ELSE [result |->
             [key \in {k \in DOMAIN obj.v : ~IsUnknown(obj.v[k])} |->
                 IF IsNull(obj.v[key])
                 THEN (CASE obj.v[key].k = "String" -> GoString("")
                         [] obj.v[key].k = "Int64"  -> GoInt64(0)
                         [] obj.v[key].k = "Bool"   -> GoBool(FALSE)
                         [] OTHER                   -> GoNil)
                 ELSE attrToInterface(key, obj.v[key], prototype).val],
          err |-> FALSE]

objectToMap_KeepsZero(obj, prototype) ==
    IF IsNull(obj) \/ IsUnknown(obj) THEN [result |-> GoNil, err |-> TRUE]
    ELSE [result |->
             [key \in {k \in DOMAIN obj.v : ~IsUnknown(obj.v[k])} |->
                 IF IsNull(obj.v[key]) THEN GoNil
                 ELSE LET goVal == attrToInterface(key, obj.v[key], prototype).val
                          actualField == findFieldByName(prototype, key)
                      IN IF actualField # NoField /\ IsPointerField(actualField)
                         THEN GoPtr(goVal) ELSE goVal],
          err |-> FALSE]

objectToMap_NoRootCheck(obj, prototype) ==
    [result |-> [key \in {k \in DOMAIN obj.v : IsNull(obj.v[k])} |-> GoNil], err |-> FALSE]

\* attrToInterface(key, val, prototype): (value, error).
attrToInterface(key, val, prototype) ==
    IF IsNull(val) \/ IsUnknown(val) THEN [val |-> GoNil, err |-> FALSE]
    ELSE LET actualField == findFieldByName(prototype, key)
         IN CASE val.k = "String" -> [val |-> GoString(ValueString(val)), err |-> FALSE]
              [] val.k = "Int64"  -> [val |-> GoInt64(ValueInt64(val)), err |-> FALSE]
              [] val.k = "Bool"   -> [val |-> GoBool(ValueBool(val)), err |-> FALSE]
              [] val.k = "Object" ->
                   LET nested == objectToMap(val, IF actualField # NoField
                                                  THEN PrototypeOfField(actualField)
                                                  ELSE prototype)
                   IN [val |-> IF nested.err THEN GoNil ELSE GoMap(nested.result),
                       err |-> nested.err]
              [] val.k = "Map" ->
                   LET elemPrototype == IF actualField # NoField /\ actualField.Kind = "Map"
                                        THEN ElemPrototypeOfField(actualField) ELSE NilPrototype
                       converted == [k \in DOMAIN val.v |->
                                        attrToInterface(k, val.v[k], elemPrototype)]
                   IN IF \E k \in DOMAIN converted : converted[k].err
                      THEN [val |-> GoNil, err |-> TRUE]
                      ELSE [val |-> GoMap([k \in DOMAIN converted |-> converted[k].val]),
                            err |-> FALSE]
              [] val.k \in {"List", "Set"} ->
                   LET elems == IF val.k = "Set" THEN ElementsOf(val.v) ELSE val.v
                       elemPrototype == IF actualField # NoField /\ actualField.Kind = "Slice"
                                        THEN ElemPrototypeOfField(actualField) ELSE NilPrototype
                       converted == [n \in DOMAIN elems |->
                                        attrToInterface("", elems[n], elemPrototype)]
                   IN IF \E n \in DOMAIN converted : converted[n].err
                      THEN [val |-> GoNil, err |-> TRUE]
                      ELSE [val |-> GoSlice([n \in DOMAIN converted |-> converted[n].val]),
                            err |-> FALSE]
              [] OTHER -> [val |-> GoNil, err |-> TRUE]

\* objectToMap(obj, prototype): (map, error).  An attribute is left out of the map
\* ("omit") when it is Unknown, converts to nil, or is a zero non-boolean value of
\* a field that is no pointer.
objectToMap(obj, prototype) ==
    IF IsNull(obj) \/ IsUnknown(obj) THEN [result |-> GoNil, err |-> TRUE]
    ELSE LET converted(key) == attrToInterface(key, obj.v[key], prototype)
             omitted(key) ==
                 LET val == obj.v[key]
                     goVal == converted(key).val
                     actualField == findFieldByName(prototype, key)
                 IN IF IsNull(val) THEN FALSE
                    ELSE IF IsUnknown(val) THEN TRUE
                    ELSE IF goVal = GoNil THEN TRUE
                    ELSE IF actualField # NoField /\ IsPointerField(actualField) THEN FALSE
                    ELSE IF goVal.g = "ptr" THEN goVal.elem = GoNil
                    ELSE ~(goVal.g = "bool" \/ ~IsZero(goVal))
             entry(key) ==
                 LET val == obj.v[key]
                     goVal == converted(key).val
                     actualField == findFieldByName(prototype, key)
                 IN IF IsNull(val) THEN GoNil
                    ELSE IF actualField # NoField /\ IsPointerField(actualField)
                    THEN (IF goVal.g # "ptr" THEN GoPtr(goVal) ELSE goVal)
                    ELSE IF goVal.g = "ptr" THEN goVal.elem
                    ELSE goVal
         IN IF \E key \in DOMAIN obj.v : IsKnown(obj.v[key]) /\ converted(key).err
            THEN [result |-> GoNil, err |-> TRUE]
            ELSE [result |-> [key \in {k \in DOMAIN obj.v : ~omitted(k)} |-> entry(key)],
                  err |-> FALSE]

\* A record (struct value): its type and the values of the fields of its
\* flattened field list, by Go field name.
GoStruct(type, values) == [g |-> "struct", type |-> type, v |-> values]
GoNilPtr   == GoPtr(GoNil)
GoNilSlice == [g |-> "nilslice"]

\* The zero value of a field's type.
RECURSIVE ZeroOf(_)
ZeroOf(field) ==
    IF IsPointerField(field) THEN GoNilPtr
    ELSE CASE field.Kind = "String" -> GoString("")
           [] field.Kind = "Int"    -> GoInt64(0)
           [] field.Kind = "Bool"   -> GoBool(FALSE)
           [] field.Kind = "Slice"  -> GoNilSlice
           [] field.Kind = "Struct" ->
                LET fields == resolveFieldsSquashed(field.Embedded)
                IN GoStruct(StructPrototype(field.Embedded),
                            [name \in {fields[n].Name : n \in DOMAIN fields} |->
                                ZeroOf(fields[CHOOSE n \in DOMAIN fields : fields[n].Name = name])])

\* strings.ToLower on the field names and keys of the model (its keys are
\* lower-case already).
ToLower(name) ==
    CASE name = "Name"    -> "name"
      [] name = "Count"   -> "count"
      [] name = "Enabled" -> "enabled"
      [] name = "Title"   -> "title"
      [] name = "Size"    -> "size"
      [] name = "Active"  -> "active"
      [] name = "Owner"   -> "owner"
      [] name = "Tags"    -> "tags"
      [] name = "Labels"  -> "labels"
      [] name = "Region"  -> "region"
      [] name = "Status"  -> "status"
      [] name = "Inner"   -> "inner"
      [] name = "Deep"    -> "deep"
      [] name = "Note"    -> "note"
      [] OTHER            -> name

\* mapstructure's name of a field: the mapstructure tag, else the field name.
DecodeKeyOf(field) ==
    IF TagName(field.mapstructure) # "" THEN TagName(field.mapstructure) ELSE field.Name

\* mapstructure decoding one value into a field: nil leaves the zero value, a
\* pointer is followed, a pointer field gets a new pointer, a map is decoded
\* into a struct field; a value of another kind than the field's is an error.
RECURSIVE DecodeValue(_, _)
RECURSIVE mapstructureDecode(_, _)
DecodeValue(field, goVal) ==
    IF goVal = GoNil \/ goVal = GoNilPtr THEN [val |-> ZeroOf(field), err |-> FALSE]
    ELSE IF goVal.g = "ptr" THEN DecodeValue(field, goVal.elem)
    ELSE IF field.Kind = "Struct"
    THEN (IF goVal.g = "map"
          THEN LET nested == mapstructureDecode(goVal.v, StructPrototype(field.Embedded))
               IN [val |-> IF nested.err THEN ZeroOf(field)
                           ELSE IF IsPointerField(field) THEN GoPtr(nested.val) ELSE nested.val,
                   err |-> nested.err]
          ELSE [val |-> ZeroOf(field), err |-> TRUE])
    ELSE LET fits == CASE field.Kind = "String" -> goVal.g = "string"
                       [] field.Kind = "Int"    -> goVal.g = "int64"
                       [] field.Kind = "Bool"   -> goVal.g = "bool"
                       [] field.Kind = "Slice"  ->
                            /\ goVal.g = "slice"
                            /\ \A n \in DOMAIN goVal.v : goVal.v[n].g = "string"
         IN IF ~fits THEN [val |-> ZeroOf(field), err |-> TRUE]
            ELSE [val |-> IF IsPointerField(field) THEN GoPtr(goVal) ELSE goVal, err |-> FALSE]

\* mapstructure.Decode(dataMap, newStruct): every field of the flattened field
\* list takes the entry under its name (exact, else case-insensitive).
mapstructureDecode(dataMap, prototype) ==
    LET fields == resolveFieldsSquashed(prototype.struct)
        keyOf(field) ==
            IF DecodeKeyOf(field) \in DOMAIN dataMap THEN {DecodeKeyOf(field)}
            ELSE {k \in DOMAIN dataMap : ToLower(k) = ToLower(DecodeKeyOf(field))}
        decoded(n) ==
            IF keyOf(fields[n]) = {} THEN [val |-> ZeroOf(fields[n]), err |-> FALSE]
            ELSE DecodeValue(fields[n], dataMap[CHOOSE k \in keyOf(fields[n]) : TRUE])
    IN IF \E n \in DOMAIN fields : decoded(n).err THEN [val |-> GoNil, err |-> TRUE]
       ELSE [val |-> GoStruct(prototype,
                        [name \in {fields[n].Name : n \in DOMAIN fields} |->
                            decoded(CHOOSE n \in DOMAIN fields : fields[n].Name = name).val]),
             err |-> FALSE]

\* StructFromPlanObject(ctx, plan, prototype), planObj being what plan.Get yields.
StructFromPlanObject(planObj, prototype) ==
    LET dataMap == objectToMap(planObj, prototype)
    IN IF dataMap.err THEN [val |-> GoNil, err |-> TRUE]
       ELSE mapstructureDecode(dataMap.result, prototype)

(***************************************************************************)
(* Encoding a record into an object: interfaceTypeToAttr and               *)
(* StructToStateObject (unnamed/part_006).                                 *)
(***************************************************************************)
RECURSIVE interfaceTypeToAttr(_, _)

interfaceTypeToAttr_NilAsZero(val, t) ==
    IF val = GoNilPtr
    THEN [val |-> CASE t.k = "String" -> StringValue("")
                    [] t.k = "Int64"  -> Int64Value(0)
                    [] t.k = "Bool"   -> BoolValue(FALSE)
                    [] OTHER          -> NullOf(t),
          err |-> FALSE]
    ELSE IF val.g = "ptr" THEN interfaceTypeToAttr(val.elem, t)
    ELSE CASE t.k = "String" ->
                \* valReflect.String() of a value that is no string names its type
                [val |-> StringValue(IF val.g = "string" THEN val.v
                                     ELSE IF val.g = "nil" THEN "<invalid Value>"
                                     ELSE "<" \o val.g \o " Value>"),
                 err |-> FALSE]
           [] t.k = "Int64" ->
                IF val.g = "int64" THEN [val |-> Int64Value(val.v), err |-> FALSE]
                ELSE [val |-> NullOf(t), err |-> TRUE]
           [] t.k = "Bool" /\ val.g = "bool" -> [val |-> BoolValue(val.v), err |-> FALSE]
           [] t.k = "List" /\ val.g \in {"slice", "nilslice"} ->
                LET elems == IF val.g = "nilslice" THEN << >> ELSE val.v
                    converted == [n \in DOMAIN elems |-> interfaceTypeToAttr(elems[n], t.et)]
                IN IF \E n \in DOMAIN converted : converted[n].err
                   THEN [val |-> NullOf(t), err |-> TRUE]
                   ELSE LET listVal == ListValue(t.et, [n \in DOMAIN converted |-> converted[n].val])
                        IN [val |-> listVal, err |-> IsUnknown(listVal)]

\* interfaceTypeToAttr(ctx, val, t): (attr.Value, error).
interfaceTypeToAttr(val, t) ==
    IF val = GoNilPtr THEN [val |-> NullOf(t), err |-> FALSE]
    ELSE IF val.g = "ptr" THEN interfaceTypeToAttr(val.elem, t)
    ELSE CASE t.k = "String" ->
                \* valReflect.String() of a value that is no string names its type
                [val |-> StringValue(IF val.g = "string" THEN val.v
                                     ELSE IF val.g = "nil" THEN "<invalid Value>"
                                     ELSE "<" \o val.g \o " Value>"),
                 err |-> FALSE]
           [] t.k = "Int64" ->
                IF val.g = "int64" THEN [val |-> Int64Value(val.v), err |-> FALSE]
                ELSE [val |-> NullOf(t), err |-> TRUE]
           [] t.k = "Bool" /\ val.g = "bool" -> [val |-> BoolValue(val.v), err |-> FALSE]
           [] t.k = "List" /\ val.g \in {"slice", "nilslice"} ->
                LET elems == IF val.g = "nilslice" THEN << >> ELSE val.v
                    converted == [n \in DOMAIN elems |-> interfaceTypeToAttr(elems[n], t.et)]
                IN IF \E n \in DOMAIN converted : converted[n].err
                   THEN [val |-> NullOf(t), err |-> TRUE]
                   ELSE LET listVal == ListValue(t.et, [n \in DOMAIN converted |-> converted[n].val])
                        IN [val |-> listVal, err |-> IsUnknown(listVal)]

\* schema.Attribute.GetType of a generated attribute.
AttributeGetType(attribute) ==
    CASE attribute.Kind = "String" -> StringType
      [] attribute.Kind = "Int64"  -> Int64Type
      [] attribute.Kind = "Bool"   -> BoolType
      [] attribute.Kind = "List"   -> ListType(attribute.ElementType)
      [] attribute.Kind = "Set"    -> SetType(attribute.ElementType)
      [] attribute.Kind = "Map"    -> MapType(attribute.ElementType)

\* ResourceSchemaToSchemaAttrTypes(schemaInput)
ResourceSchemaToSchemaAttrTypes(schemaInput) ==
    [key \in DOMAIN schemaInput.Attributes |-> AttributeGetType(schemaInput.Attributes[key])]

StructToStateObject_UnknownFill(input, stateObj, planObj, schemaAttrs) ==
    LET actualFields == resolveFieldsSquashed(input.type.struct)
        declared == {n \in DOMAIN actualFields :
                        resolveFieldName(actualFields[n]) \in DOMAIN schemaAttrs}
        attrOf(n) == interfaceTypeToAttr(input.v[actualFields[n].Name],
                                         schemaAttrs[resolveFieldName(actualFields[n])])
        \* valueMap[tagName] = attrVal, the last field of a name winning
        lastOf(tagName) == CHOOSE n \in declared :
                              /\ resolveFieldName(actualFields[n]) = tagName
                              /\ \A other \in declared :
                                    resolveFieldName(actualFields[other]) = tagName => other <= n
        fromFields == {resolveFieldName(actualFields[n]) : n \in declared}
        valueMap ==
            [attrName \in DOMAIN schemaAttrs |->
                IF attrName \in fromFields THEN attrOf(lastOf(attrName)).val
                ELSE IF planObj # NilModel /\ attrName \in DOMAIN planObj.v THEN planObj.v[attrName]
                ELSE IF stateObj # NilModel /\ attrName \in DOMAIN stateObj.v
                THEN stateObj.v[attrName]
                ELSE UnknownOf(schemaAttrs[attrName])]
        objVal == ObjectValue(schemaAttrs, valueMap)
    IN IF \E n \in declared : attrOf(n).err THEN [obj |-> ZeroObject, err |-> TRUE]
       ELSE IF IsUnknown(objVal) THEN [obj |-> ZeroObject, err |-> TRUE]
       ELSE [obj |-> objVal, err |-> FALSE]

StructToStateObject_StateFirst(input, stateObj, planObj, schemaAttrs) ==
    LET actualFields == resolveFieldsSquashed(input.type.struct)
        declared == {n \in DOMAIN actualFields :
                        resolveFieldName(actualFields[n]) \in DOMAIN schemaAttrs}
        attrOf(n) == interfaceTypeToAttr(input.v[actualFields[n].Name],
                                         schemaAttrs[resolveFieldName(actualFields[n])])
        \* valueMap[tagName] = attrVal, the last field of a name winning
        lastOf(tagName) == CHOOSE n \in declared :
                              /\ resolveFieldName(actualFields[n]) = tagName
                              /\ \A other \in declared :
                                    resolveFieldName(actualFields[other]) = tagName => other <= n
        fromFields == {resolveFieldName(actualFields[n]) : n \in declared}
        valueMap ==
            [attrName \in DOMAIN schemaAttrs |->
                IF attrName \in fromFields THEN attrOf(lastOf(attrName)).val
                ELSE IF stateObj # NilModel /\ attrName \in DOMAIN stateObj.v
                THEN stateObj.v[attrName]
                ELSE IF planObj # NilModel /\ attrName \in DOMAIN planObj.v THEN planObj.v[attrName]
                ELSE NullOf(schemaAttrs[attrName])]
        objVal == ObjectValue(schemaAttrs, valueMap)
    IN IF \E n \in declared : attrOf(n).err THEN [obj |-> ZeroObject, err |-> TRUE]
       ELSE IF IsUnknown(objVal) THEN [obj |-> ZeroObject, err |-> TRUE]
       ELSE [obj |-> objVal, err |-> FALSE]

\* StructToStateObject(ctx, input, state, plan, schemaAttrs): (types.Object, error);
\* stateObj and planObj are what state.Get and plan.Get yield, NilModel for a nil
\* state or plan.
StructToStateObject(input, stateObj, planObj, schemaAttrs) ==
    LET actualFields == resolveFieldsSquashed(input.type.struct)
        declared == {n \in DOMAIN actualFields :
                        resolveFieldName(actualFields[n]) \in DOMAIN schemaAttrs}
        attrOf(n) == interfaceTypeToAttr(input.v[actualFields[n].Name],
                                         schemaAttrs[resolveFieldName(actualFields[n])])
        \* valueMap[tagName] = attrVal, the last field of a name winning
        lastOf(tagName) == CHOOSE n \in declared :
                              /\ resolveFieldName(actualFields[n]) = tagName
                              /\ \A other \in declared :
                                    resolveFieldName(actualFields[other]) = tagName => other <= n
        fromFields == {resolveFieldName(actualFields[n]) : n \in declared}
        valueMap ==
            [attrName \in DOMAIN schemaAttrs |->
                IF attrName \in fromFields THEN attrOf(lastOf(attrName)).val
                ELSE IF planObj # NilModel /\ attrName \in DOMAIN planObj.v THEN planObj.v[attrName]
                ELSE IF stateObj # NilModel /\ attrName \in DOMAIN stateObj.v
                THEN stateObj.v[attrName]
                ELSE NullOf(schemaAttrs[attrName])]
        objVal == ObjectValue(schemaAttrs, valueMap)
    IN IF \E n \in declared : attrOf(n).err THEN [obj |-> ZeroObject, err |-> TRUE]
       ELSE IF IsUnknown(objVal) THEN [obj |-> ZeroObject, err |-> TRUE]
       ELSE [obj |-> objVal, err |-> FALSE]

\* The schema attribute types generated for a record type.
TypeSchema(prototype) ==
    ResourceSchemaToSchemaAttrTypes(
        [Attributes |-> resourceSchemaAttrsFromStruct(prototype.struct, FALSE, {}, {}, {})])

(***************************************************************************)
(* The conversions of the checked scenarios: record types with plain       *)
(* fields, pointer-optional fields and a squashed embedded record before   *)
(* or after them; plan objects whose attributes are Null, Unknown, the     *)
(* zero value or another value; records whose pointers are nil, point to   *)
(* the zero value or to another value.  An object is decoded and the       *)
(* record re-encoded, or a record is encoded and the object decoded.       *)
(***************************************************************************)
pTitle  == PointerField(StructField("Title", "title", "", "String", "none"))
pSize   == PointerField(StructField("Size", "size", "", "Int", "none"))
pActive == PointerField(StructField("Active", "active", "", "Bool", "none"))
pOwner  == PointerField(StructField("Owner", "owner", "", "String", "none"))
pBase   == [StructField("Base", ",squash", "", "Struct", "none") EXCEPT !.Embedded = <<pOwner>>]

MixedStruct       == StructPrototype(<<fName, fCount, fEnabled, pTitle>>)
ListStruct        == StructPrototype(<<fTags, pSize>>)
PointerStruct     == StructPrototype(<<pTitle, pSize, pActive>>)
SquashFirstStruct == StructPrototype(<<pBase, pTitle, pSize>>)
SquashLastStruct  == StructPrototype(<<pTitle, pSize, pBase>>)

StructPrototypes == {MixedStruct, ListStruct, PointerStruct, SquashFirstStruct, SquashLastStruct}
Prototypes       == StructPrototypes \cup {NilPrototype, NonStructPrototype}

\* The values an attribute of a type takes: Null, Unknown, the zero value and
\* another value.
AttrValuesOfType(t) ==
    CASE t.k = "String" -> <<StringNull, StringUnknown, StringValue(""), StringValue("a")>>
      [] t.k = "Int64"  -> <<Int64Null, Int64Unknown, Int64Value(0), Int64Value(7)>>
      [] t.k = "Bool"   -> <<BoolNull, BoolUnknown, BoolValue(FALSE), BoolValue(TRUE)>>
      [] t.k = "List"   -> <<ListNull(t.et), ListUnknown(t.et), ListKnown(t.et, << >>),
                             ListKnown(t.et, <<StringValue("a")>>)>>

\* Known objects over the given attribute types.
ObjectsOfType(attrTypes) ==
    {ObjectKnown(attrTypes, [k \in DOMAIN attrTypes |-> AttrValuesOfType(attrTypes[k])[choice[k]]]) :
        choice \in [DOMAIN attrTypes -> 1..4]}

\* The values a field takes: for a pointer nil, a pointer to the zero value and
\* a pointer to another value; else the zero value and another value.
GoValuesOfField(field) ==
    LET plain == CASE field.Kind = "String" -> <<GoString(""), GoString("a")>>
                   [] field.Kind = "Int"    -> <<GoInt64(0), GoInt64(7)>>
                   [] field.Kind = "Bool"   -> <<GoBool(FALSE), GoBool(TRUE)>>
                   [] field.Kind = "Slice"  -> <<GoNilSlice, GoSlice(<<GoString("a")>>)>>
    IN IF IsPointerField(field) THEN <<GoNilPtr, GoPtr(plain[1]), GoPtr(plain[2])>> ELSE plain

\* The records of a type.
RecordsOfType(prototype) ==
    LET fields == resolveFieldsSquashed(prototype.struct)
        names  == {fields[n].Name : n \in DOMAIN fields}
        fieldOf(name) == fields[CHOOSE n \in DOMAIN fields : fields[n].Name = name]
    IN {GoStruct(prototype, [name \in names |-> GoValuesOfField(fieldOf(name))[choice[name]]]) :
           choice \in {c \in [names -> 1..3] :
                          \A name \in names : c[name] <= Len(GoValuesOfField(fieldOf(name)))}}

\* The attribute "id" that no field of the records declares.
ExtraAttrTypes == [id |-> StringType]
ExtraAttrs     == [id |-> StringValue("i-1")]

\* The value the prior state holds for "id".
StateExtraAttrs == [id |-> StringValue("i-0")]

\* "none": the object and the schema have the type's attributes only; in the
\* other choices the schema also has "id" and the encoding is handed
\* "null": neither plan nor state;      "plan":  the plan, which holds "id";
\* "state": the state, which holds "id"; "both": the plan and the state, both
\* holding "id"; "planLacks": the state holding "id" and a plan without it.
ExtraChoices == {"none", "plan", "null", "state", "both", "planLacks"}

WithExtra(obj, extra) ==
    IF extra \in {"none", "planLacks"} THEN obj
    ELSE IF IsKnown(obj) THEN ObjectKnown(obj.at @@ ExtraAttrTypes, obj.v @@ ExtraAttrs)
    ELSE [obj EXCEPT !.at = obj.at @@ ExtraAttrTypes]

SchemaAttrsOf(prototype, extra) ==
    IF extra = "none" THEN TypeSchema(prototype) ELSE TypeSchema(prototype) @@ ExtraAttrTypes

ObjectInputs ==
    UNION {{[prototype |-> prototype, extra |-> extra, obj |-> WithExtra(obj, extra)] :
               obj \in ObjectsOfType(TypeSchema(prototype)), extra \in ExtraChoices} :
           prototype \in StructPrototypes}

RootInputs ==
    {[prototype |-> prototype, extra |-> "none", obj |-> obj] :
        prototype \in Prototypes,
        obj \in {ObjectNull(TypeSchema(PointerStruct)), ObjectUnknown(TypeSchema(PointerStruct)),
                 ObjectKnown(EmptyMap, EmptyMap)}}

\* The prior state handed to the encoding: every attribute of a field holds the
\* non-zero value of its type.
StateObjectOf(prototype, extra) ==
    IF extra \in {"state", "both", "planLacks"}
    THEN ObjectKnown(SchemaAttrsOf(prototype, extra),
                     [k \in DOMAIN TypeSchema(prototype) |->
                         AttrValuesOfType(TypeSchema(prototype)[k])[4]] @@ StateExtraAttrs)
    ELSE NilModel

RecordInputs ==
    UNION {{[prototype |-> prototype, extra |-> extra, rec |-> rec] :
               rec \in RecordsOfType(prototype), extra \in {"none", "null", "state"}} :
           prototype \in StructPrototypes}

IsObjectInput == convInput # Idle /\ "obj" \in DOMAIN convInput
IsRecordInput == convInput # Idle /\ "rec" \in DOMAIN convInput

\* objectToMap on the input object.
CallObjectToMap ==
    /\ IsObjectInput /\ convOutput = Idle
    /\ convOutput' = [op |-> "objectToMap"] @@ objectToMap(convInput.obj, convInput.prototype)
    /\ UNCHANGED <<guardVars, lifeVars, schemaVars, mergeVars, mergeObjInput, mergeObjOutput, convInput, reconVars, copyVars, crudVars, trigVars>>

\* StructFromPlanObject on the input object, or on the object a record was
\* encoded into.
CallStructFromPlanObject ==
    /\ convInput # Idle /\ IsStructPrototype(convInput.prototype)
    /\ \/ IsObjectInput /\ convOutput = Idle
       \/ IsRecordInput /\ convOutput # Idle /\ convOutput.op = "encode" /\ ~convOutput.err
    /\ LET planObj == IF convOutput = Idle THEN convInput.obj ELSE convOutput.obj
           decoded == StructFromPlanObject(planObj, convInput.prototype)
       IN convOutput' = [op |-> IF convOutput = Idle THEN "decode" ELSE "encode-decode",
                         obj |-> planObj, rec |-> decoded.val, err |-> decoded.err]
    /\ UNCHANGED <<guardVars, lifeVars, schemaVars, mergeVars, mergeObjInput, mergeObjOutput, convInput, reconVars, copyVars, crudVars, trigVars>>

\* StructToStateObject on the input record, or on the record an object was
\* decoded into.
CallStructToStateObject ==
    /\ convInput # Idle /\ IsStructPrototype(convInput.prototype)
    /\ \/ IsRecordInput /\ convOutput = Idle
       \/ IsObjectInput /\ convOutput # Idle /\ convOutput.op = "decode" /\ ~convOutput.err
    /\ LET input   == IF convOutput = Idle THEN convInput.rec ELSE convOutput.rec
           planObj == IF convInput.extra \in {"plan", "both", "planLacks"}
                      THEN convInput.obj ELSE NilModel
           encoded == StructToStateObject(input, StateObjectOf(convInput.prototype, convInput.extra), planObj,
                                          SchemaAttrsOf(convInput.prototype, convInput.extra))
       IN convOutput' = [op |-> IF convOutput = Idle THEN "encode" ELSE "decode-encode",
                         rec |-> input, obj |-> encoded.obj, err |-> encoded.err]
    /\ UNCHANGED <<guardVars, lifeVars, schemaVars, mergeVars, mergeObjInput, mergeObjOutput, convInput, reconVars, copyVars, crudVars, trigVars>>

InitConvert ==
    /\ convInput \in ObjectInputs \cup RootInputs \cup RecordInputs
    /\ convOutput = Idle
    /\ GuardIdle /\ LifeIdle /\ SchemaIdle /\ MergeIdle /\ MergeObjIdle /\ ReconIdle /\ CopyIdle /\ CrudIdle /\ TrigIdle

NextConvert ==
    \/ CallObjectToMap
    \/ CallStructFromPlanObject
    \/ CallStructToStateObject

SpecConvert == InitConvert /\ [][NextConvert]_vars

(***************************************************************************)
(* Claims about the immutable-attribute plan modifiers (SpecGuard).        *)
(***************************************************************************)
GuardCalled == guardResp # Idle

ScalarKinds == {"String", "Int64", "Bool"}

\* The Update phase of a guard request: prior state exists, the plan exists,
\* the plan value and the config value are both known (not Unknown).
UpdatePhase(req) ==
    /\ ~req.StateRawIsNull
    /\ ~req.PlanRawIsNull
    /\ req.PlanValue.state # "unknown"
    /\ req.ConfigValue.state # "unknown"

\* C1: in the Update phase a guard whose plan value differs from the state value
\* adds exactly one error diagnostic with summary 'Immutable Attribute Cannot Be
\* Changed' on the attribute path; for string, int64 and bool the detail names the
\* path, the current (state) value and the attempted (plan) value, for list, set
\* and map only the path.
C1_ChangeRejectedWithStructuredError ==
    (GuardCalled /\ UpdatePhase(guardReq) /\ guardReq.PlanValue # guardReq.StateValue) =>
        /\ Len(guardResp.Diagnostics) = 1
        /\ guardResp.Diagnostics[1].severity = "error"
        /\ guardResp.Diagnostics[1].summary = "Immutable Attribute Cannot Be Changed"
        /\ guardResp.Diagnostics[1].path = guardReq.Path
        /\ guardKind \in ScalarKinds =>
              guardResp.Diagnostics[1].detail =
                  [template |-> "WithValues", path |-> guardReq.Path,
                   current |-> guardReq.StateValue.v, attempted |-> guardReq.PlanValue.v]
        /\ guardKind \notin ScalarKinds =>
              guardResp.Diagnostics[1].detail = [template |-> "Simple", path |-> guardReq.Path]

C1_Witness ==
    /\ GuardCalled /\ UpdatePhase(guardReq)
    /\ guardKind = "String"
    /\ guardReq.StateValue = StringValue("old-value")
    /\ guardReq.PlanValue = StringValue("new-value")
    /\ Len(guardResp.Diagnostics) = 1

\* C4: the guard never rejects when the whole state is null (Create) or the whole
\* plan is null (Destroy), whatever the attribute's state, plan and config values.
C4_CreateAndDestroyAlwaysAllowed ==
    (GuardCalled /\ (guardReq.StateRawIsNull \/ guardReq.PlanRawIsNull)) =>
        guardResp.Diagnostics = << >>

C4_Witness ==
    /\ GuardCalled
    /\ guardKind = "Int64"
    /\ ~guardReq.StateRawIsNull /\ guardReq.PlanRawIsNull
    /\ guardReq.StateValue = Int64Value(42)
    /\ guardReq.PlanValue = Int64Value(99)
    /\ guardReq.ConfigValue = Int64Value(99)
    /\ guardResp.Diagnostics = << >>

\* C5: if the plan value equals the state value the guard adds no error, for every
\* value of every kind (empty string, zero, false, null, empty containers included).
C5_EqualValuesNeverRejected ==
    (GuardCalled /\ guardReq.PlanValue = guardReq.StateValue) =>
        guardResp.Diagnostics = << >>

C5_Witness ==
    /\ GuardCalled /\ UpdatePhase(guardReq)
    /\ guardKind = "String"
    /\ guardReq.StateValue = StringValue("")
    /\ guardReq.PlanValue = StringValue("")
    /\ guardResp.Diagnostics = << >>

\* C6: if the plan value or the config value is Unknown the guard adds no error,
\* even when the state value is known and the plan value is known and different.
C6_UnknownDefersTheCheck ==
    (GuardCalled /\ (IsUnknown(guardReq.PlanValue) \/ IsUnknown(guardReq.ConfigValue))) =>
        guardResp.Diagnostics = << >>

C6_Witness ==
    /\ GuardCalled
    /\ ~guardReq.StateRawIsNull /\ ~guardReq.PlanRawIsNull
    /\ guardReq.ConfigValue.state = "unknown"
    /\ guardReq.StateValue.state = "known"
    /\ guardReq.PlanValue.state = "known"
    /\ guardReq.PlanValue # guardReq.StateValue
    /\ guardResp.Diagnostics = << >>

(***************************************************************************)
(* Claims about the life cycle of a resource with guarded attributes       *)
(* (SpecLife).                                                             *)
(***************************************************************************)
\* C2: a plan that changes a guarded attribute of an existing resource is rejected
\* at plan time: the resource's Update never runs for a plan in which a guarded
\* attribute's known value differs from its state value.
C2_UpdateNeverRunsOnChangedGuardedAttribute ==
    tfLastCall.op = "Update" =>
        \A a \in GuardedAttrs :
            tfLastCall.plan[a].state # "unknown" => tfLastCall.plan[a] = tfLastCall.state[a]

\* A plan changing a guarded attribute was rejected after an earlier update ran.
C2_Witness ==
    /\ tfPhase = "rejected"
    /\ tfState # NullRaw
    /\ \E a \in GuardedAttrs : tfPlan[a].state = "known" /\ tfPlan[a] # tfState[a]
    /\ tfLastCall.op = "Update"

\* C3: through every sequence of create, accepted update and rejected update steps
\* the stored value of each guarded attribute equals the value the resource was
\* created with, until it is destroyed; an update that changes only unguarded
\* attributes is accepted, and its new values are stored.
C3_GuardedAttributesKeepCreationValue ==
    /\ tfState # NullRaw =>
          \A a \in GuardedAttrs : tfState[a] = tfCreatedWith[a]
    /\ (tfPhase \in {"planned", "rejected"} /\ tfState # NullRaw /\ tfPlan # NullRaw
            /\ \A a \in GuardedAttrs : tfPlan[a] = tfState[a]) =>
          (tfPhase = "planned" /\ ~HasError(tfDiags))
    /\ tfLastCall.op = "Update" =>
          tfState.mutable_field = tfLastCall.plan.mutable_field

\* An update of the unguarded attribute was stored, and a later plan changing a
\* guarded attribute was rejected, the guarded attributes still as created.
C3_Witness ==
    /\ tfLastCall.op = "Update"
    /\ tfState # NullRaw
    /\ tfState.mutable_field # tfCreatedWith.mutable_field
    /\ tfPhase = "rejected"
    /\ \A a \in GuardedAttrs : tfState[a] = tfCreatedWith[a]

(***************************************************************************)
(* Claims about the generated resource schema (SpecSchema).                *)
(***************************************************************************)
ImmutableModifiers ==
    {"ImmutableString", "ImmutableInt64", "ImmutableBool", "ImmutableList", "ImmutableSet",
     "ImmutableMap"}

IsGuarded(attribute) ==
    \E i \in DOMAIN attribute.PlanModifiers : attribute.PlanModifiers[i] \in ImmutableModifiers

\* C7: every attribute named in the action definition's ImmutableAttributes list is
\* guarded in the schema generated for the resource, so that a plan changing such
\* an attribute after creation fails with an error during terraform plan.
C7_ImmutableAttributesAreGuarded ==
    /\ respSchema # Idle =>
          \A name \in DOMAIN respSchema.Schema.Attributes :
              name \in getImmutableAttributes(actionDefinition) =>
                  IsGuarded(respSchema.Schema.Attributes[name])
    /\ (schemaPlan # Idle /\ schemaPlan.attribute \in getImmutableAttributes(actionDefinition)) =>
          HasError(schemaPlan.resp.Diagnostics)

(***************************************************************************)
(* Claims about the attribute-tree merge (SpecMerge).                      *)
(***************************************************************************)
MergeCalled == mergeResult # Idle

\* The existing entry of every Null/Unknown incoming attribute is as it was, here
\* and inside the objects the merge recurses into (attributes of objects, elements
\* of maps of objects, elements of lists of objects).
RECURSIVE SkippedRetained(_, _, _)
SkippedRetained(existing, incoming, result) ==
    \A key \in DOMAIN incoming :
        LET planVal == incoming[key]
        IN /\ ~IsKnown(planVal) =>
                IF key \in DOMAIN existing
                THEN key \in DOMAIN result /\ result[key] = existing[key]
                ELSE key \notin DOMAIN result
           /\ (IsKnown(planVal) /\ planVal.k = "Object" /\ key \in DOMAIN existing
                 /\ existing[key].k = "Object") =>
                /\ key \in DOMAIN result /\ result[key].k = "Object"
                /\ SkippedRetained(existing[key].v, planVal.v, result[key].v)
           /\ (IsKnown(planVal) /\ planVal.k = "Map" /\ planVal.et.k = "Object"
                 /\ key \in DOMAIN existing /\ existing[key].k = "Map") =>
                /\ key \in DOMAIN result /\ result[key].k = "Map"
                /\ \A k \in DOMAIN planVal.v \cap DOMAIN existing[key].v :
                      IsKnown(planVal.v[k]) =>
                          /\ k \in DOMAIN result[key].v
                          /\ SkippedRetained(existing[key].v[k].v, planVal.v[k].v,
                                             result[key].v[k].v)
           /\ (IsKnown(planVal) /\ planVal.k = "List" /\ planVal.et.k = "Object"
                 /\ key \in DOMAIN existing /\ existing[key].k = "List"
                 /\ IsKnown(existing[key])) =>
                /\ key \in DOMAIN result /\ result[key].k = "List"
                /\ \A n \in DOMAIN planVal.v \cap DOMAIN existing[key].v :
                      (IsKnown(planVal.v[n]) /\ IsKnown(existing[key].v[n])) =>
                          /\ n \in DOMAIN result[key].v
                          /\ SkippedRetained(existing[key].v[n].v, planVal.v[n].v,
                                             result[key].v[n].v)

\* C8: for every incoming attribute whose value is Null or Unknown the merge leaves
\* the existing entry of that key exactly as it was (the same value if present,
\* still absent if absent), at the top level and inside recursively merged objects.
C8_NullAndUnknownIncomingKeepExisting ==
    MergeCalled => SkippedRetained(mergeExisting, mergeIncoming, mergeResult)

\* A Null top-level attribute over a known one, and, in the same tree shape, a
\* Null attribute inside an object that is merged recursively.
C8_Witness ==
    /\ MergeCalled
    /\ \/ /\ DOMAIN mergeIncoming = {"s", "n"} /\ DOMAIN mergeExisting = {"s"}
          /\ mergeIncoming["s"] = StringNull /\ mergeIncoming["n"] = StringUnknown
          /\ mergeExisting["s"] = StringValue("a")
          /\ mergeResult = mergeExisting
       \/ /\ DOMAIN mergeIncoming = {"o"} /\ DOMAIN mergeExisting = {"o"}
          /\ mergeExisting["o"] = OuterObject(StringValue("a"),
                                      InnerObject(StringValue("b"), StringValue("a")))
          /\ mergeIncoming["o"] = OuterObject(StringNull,
                                      InnerObject(StringUnknown, StringNull))
          /\ mergeResult = mergeExisting

\* The attributes of the recursive merge of a known incoming object into a known
\* existing object: the incoming attribute where it is known, the existing one
\* where it is Null or Unknown.
MergedInnerObject(existingObj, planObj) ==
    ObjectKnown(existingObj.at,
        [name \in DOMAIN existingObj.v |->
            IF name \in DOMAIN planObj.v /\ IsKnown(planObj.v[name])
            THEN planObj.v[name] ELSE existingObj.v[name]])

\* What the merged map must hold under a key of both maps: the existing object
\* when the incoming one carries nothing, the incoming one when the existing one
\* carries nothing, otherwise the recursive merge.
HoldsMergeOf(resultObj, existingObj, planObj) ==
    IF ~IsKnown(planObj) THEN resultObj = existingObj
    ELSE IF ~IsKnown(existingObj)
    THEN /\ IsKnown(resultObj)
         /\ \A name \in DOMAIN planObj.v :
               IsKnown(planObj.v[name]) => resultObj.v[name] = planObj.v[name]
    ELSE resultObj = MergedInnerObject(existingObj, planObj)

MapOfObjectsMerged ==
    /\ MergeCalled
    /\ "m" \in DOMAIN mergeIncoming /\ "m" \in DOMAIN mergeExisting
    /\ IsKnown(mergeIncoming["m"]) /\ mergeIncoming["m"].k = "Map"
    /\ mergeIncoming["m"].et.k = "Object"
    /\ mergeExisting["m"].k = "Map"

\* C9: merging a Map attribute whose element type is Object is key-by-key: a key
\* only in the existing map keeps its object, a key only in the incoming map is
\* added with the incoming object, and a key in both holds the recursive merge of
\* the incoming object into the existing object.  (An incoming element that is
\* Null or Unknown is no incoming object: it is skipped like every Null/Unknown
\* incoming value.)
C9_MapOfObjectsMergesKeyByKey ==
    MapOfObjectsMerged =>
        LET existingElems == mergeExisting["m"].v
            planElems     == mergeIncoming["m"].v
            planObjects   == {k \in DOMAIN planElems : IsKnown(planElems[k])}
            resultMap     == mergeResult["m"]
        IN /\ resultMap.k = "Map" /\ IsKnown(resultMap)
           /\ DOMAIN resultMap.v = DOMAIN existingElems \cup planObjects
           /\ \A k \in DOMAIN existingElems \ DOMAIN planElems :
                 resultMap.v[k] = existingElems[k]
           /\ \A k \in planObjects \ DOMAIN existingElems :
                 resultMap.v[k] = planElems[k]
           /\ \A k \in DOMAIN planElems \cap DOMAIN existingElems :
                 HoldsMergeOf(resultMap.v[k], existingElems[k], planElems[k])

ListOfObjectsMerged ==
    /\ MergeCalled
    /\ "l" \in DOMAIN mergeIncoming
    /\ IsKnown(mergeIncoming["l"]) /\ mergeIncoming["l"].k = "List"
    /\ mergeIncoming["l"].et.k = "Object"

\* C10: merging a List attribute whose element type is Object is index-by-index:
\* the result has the incoming list's length; at index i the incoming object is
\* recursively merged into the existing object at i when both are known objects
\* and i is within the existing list, an incoming Null/Unknown element within the
\* existing bounds keeps the existing element, and in every other case the
\* incoming element is taken as is.
C10_ListOfObjectsMergesIndexByIndex ==
    ListOfObjectsMerged =>
        LET planElems     == mergeIncoming["l"].v
            existingElems == IF "l" \in DOMAIN mergeExisting /\ mergeExisting["l"].k = "List"
                             THEN mergeExisting["l"].v ELSE << >>
            resultList    == mergeResult["l"]
        IN /\ resultList.k = "List" /\ IsKnown(resultList)
           /\ Len(resultList.v) = Len(planElems)
           /\ \A n \in 1..Len(planElems) :
                 IF n <= Len(existingElems) /\ IsKnown(planElems[n]) /\ IsKnown(existingElems[n])
                 THEN resultList.v[n] = MergedInnerObject(existingElems[n], planElems[n])
                 ELSE IF n <= Len(existingElems) /\ ~IsKnown(planElems[n])
                 THEN resultList.v[n] = existingElems[n]
                 ELSE resultList.v[n] = planElems[n]

\* One list in which index 1 is merged recursively and index 2 keeps the existing
\* element, and one in which index 2 lies beyond the existing list.
C10_Witness ==
    /\ ListOfObjectsMerged
    /\ "l" \in DOMAIN mergeExisting /\ mergeExisting["l"].k = "List"
    /\ \/ /\ mergeExisting["l"].v = <<InnerObject(StringValue("a"), StringNull),
                                      InnerObject(StringValue("b"), StringValue("a"))>>
          /\ mergeIncoming["l"].v = <<InnerObject(StringNull, StringValue("b")),
                                      ObjectNull(InnerAttrTypes)>>
          /\ mergeResult["l"].v = <<InnerObject(StringValue("a"), StringValue("b")),
                                    InnerObject(StringValue("b"), StringValue("a"))>>
       \/ /\ mergeExisting["l"].v = <<ObjectNull(InnerAttrTypes)>>
          /\ mergeIncoming["l"].v = <<InnerObject(StringValue("a"), StringNull),
                                      ObjectUnknown(InnerAttrTypes)>>
          /\ mergeResult["l"].v = mergeIncoming["l"].v

\* C11: a known incoming List or Map attribute whose element type is not Object
\* replaces the existing value wholesale: the merged value equals the incoming
\* container exactly, and no element or key only of the existing container survives.
C11_NonObjectContainersReplaceWholesale ==
    MergeCalled =>
        \A key \in DOMAIN mergeIncoming :
            LET planVal == mergeIncoming[key]
            IN (IsKnown(planVal) /\ planVal.k \in {"List", "Map"} /\ planVal.et.k # "Object") =>
                  /\ key \in DOMAIN mergeResult
                  /\ mergeResult[key] = planVal
                  /\ planVal.k = "Map" => DOMAIN mergeResult[key].v = DOMAIN planVal.v
                  /\ planVal.k = "List" => Len(mergeResult[key].v) = Len(planVal.v)

\* An existing map with a key the incoming map lacks, and an existing list of one
\* element under an incoming list of two.
C11_Witness ==
    /\ MergeCalled
    /\ \/ /\ DOMAIN mergeIncoming = {"ms"} /\ DOMAIN mergeExisting = {"ms"}
          /\ mergeExisting["ms"] = MapKnown(StringType,
                 [k \in {"k1", "k2"} |-> StringValue("a")])
          /\ mergeIncoming["ms"] = MapKnown(StringType, [k \in {"k1"} |-> StringNull])
          /\ DOMAIN mergeResult["ms"].v = {"k1"}
       \/ /\ DOMAIN mergeIncoming = {"ls"} /\ DOMAIN mergeExisting = {"ls"}
          /\ mergeExisting["ls"] = ListKnown(StringType, <<StringValue("a")>>)
          /\ mergeIncoming["ls"] = ListKnown(StringType, <<StringNull, StringValue("a")>>)
          /\ Len(mergeResult["ls"].v) = 2

\* C12: merging a Set attribute never merges element-wise: for every element type
\* the incoming set's Null and Unknown elements are filtered out and the remaining
\* incoming elements replace the existing set wholesale, so the merged set holds no
\* Null or Unknown element and no element only of the existing set.
C12_SetsAreFilteredAndReplaced ==
    MergeCalled =>
        \A key \in DOMAIN mergeIncoming :
            LET planVal == mergeIncoming[key]
            IN (IsKnown(planVal) /\ planVal.k = "Set") =>
                  /\ key \in DOMAIN mergeResult
                  /\ mergeResult[key].k = "Set" /\ IsKnown(mergeResult[key])
                  /\ mergeResult[key].v = {elem \in planVal.v : IsKnown(elem)}

MergedIntoItself == MergeCalled /\ mergeExisting = mergeIncoming

\* C13: the attribute-tree merge is idempotent on equal inputs: merging an attribute
\* map x into itself leaves every attribute of x, at every depth, equal to its value
\* before the merge.
C13_MergeIntoItselfChangesNothing ==
    MergedIntoItself => mergeResult = mergeExisting

\* after is before, but for the Null and Unknown elements a known Set may have
\* lost, at every depth.
RECURSIVE SameButNullSetElements(_, _)
SameButNullSetElements(before, after) ==
    IF ~IsKnown(before) THEN after = before
    ELSE IF before.k = "Set"
    THEN /\ TypeOf(after) = TypeOf(before) /\ IsKnown(after)
         /\ after.v \subseteq before.v
         /\ {elem \in before.v : IsKnown(elem)} \subseteq after.v
    ELSE IF before.k \in {"Object", "Map", "List"}
    THEN /\ TypeOf(after) = TypeOf(before) /\ IsKnown(after)
         /\ DOMAIN after.v = DOMAIN before.v
         /\ \A name \in DOMAIN before.v : SameButNullSetElements(before.v[name], after.v[name])
    ELSE after = before

\* C13 as it holds: merging x into itself leaves every attribute of x, at every
\* depth, equal to its value before the merge, except that a known Set attribute
\* may lose its Null and Unknown elements: it keeps its type and every known
\* element and gains none.
C13_MergeIntoItselfKeepsAllButNullSetElements ==
    MergedIntoItself =>
        /\ DOMAIN mergeResult = DOMAIN mergeExisting
        /\ \A key \in DOMAIN mergeExisting :
              SameButNullSetElements(mergeExisting[key], mergeResult[key])

\* A two-level object with Null and Unknown attributes merged into itself, and an
\* object whose set of objects loses its Null element.
C13_Witness ==
    /\ MergedIntoItself
    /\ \/ /\ DOMAIN mergeExisting = {"o"}
          /\ mergeExisting["o"] = OuterObject(StringNull, InnerObject(StringUnknown, StringNull))
          /\ mergeResult = mergeExisting
       \/ /\ DOMAIN mergeExisting = {"t"}
          /\ IsKnown(mergeExisting["t"])
          /\ mergeExisting["t"].v["tags"].v =
                {ObjectNull(InnerAttrTypes), InnerObject(StringValue("a"), StringNull)}
          /\ mergeResult["t"].v["tags"].v = {InnerObject(StringValue("a"), StringNull)}

(***************************************************************************)
(* Claims about MergePlanToStateObject (SpecMergeObject).                  *)
(***************************************************************************)
\* The attribute has a known value neither in the state object nor in the plan.
AbsentAfterMerging(key) ==
    /\ key \in DOMAIN mergeObjInput.stateResult.v => ~IsKnown(mergeObjInput.stateResult.v[key])
    /\ key \in DOMAIN mergeObjInput.planObj.v => ~IsKnown(mergeObjInput.planObj.v[key])

\* Every known state or plan value of a declared attribute has the declared type.
WellTypedInputs ==
    \A key \in DOMAIN mergeObjInput.schemaAttrs :
        \A obj \in {mergeObjInput.stateResult, mergeObjInput.planObj} :
            (key \in DOMAIN obj.v /\ IsKnown(obj.v[key])) =>
                TypeOf(obj.v[key]) = mergeObjInput.schemaAttrs[key]

\* C14: the object returned by MergePlanToStateObject has exactly the schema-declared
\* attribute set: every declared attribute is present, those absent after merging
\* being set to the null of their declared type, and no attribute outside the schema
\* remains.  (The call returns an object, not an error, whenever the state's and the
\* plan's values have the declared types.)
C14_MergedObjectHasExactlyTheSchemaAttributes ==
    mergeObjOutput # Idle =>
        /\ WellTypedInputs => ~mergeObjOutput.err
        /\ ~mergeObjOutput.err =>
              LET obj == mergeObjOutput.obj
                  schemaAttrs == mergeObjInput.schemaAttrs
              IN /\ IsKnown(obj) /\ obj.at = schemaAttrs
                 /\ DOMAIN obj.v = DOMAIN schemaAttrs
                 /\ \A key \in DOMAIN schemaAttrs :
                       /\ TypeOf(obj.v[key]) = schemaAttrs[key]
                       /\ AbsentAfterMerging(key) => obj.v[key] = NullOf(schemaAttrs[key])

\* A schema of s and o, a state of s and n (n is dropped, o is filled with null),
\* a plan that brings nothing known.
C14_Witness ==
    /\ mergeObjOutput # Idle /\ ~mergeObjOutput.err
    /\ DOMAIN mergeObjInput.schemaAttrs = {"s", "o"}
    /\ DOMAIN mergeObjInput.stateResult.v = {"s", "n"}
    /\ mergeObjInput.stateResult.v["n"] = StringValue("b")
    /\ mergeObjInput.stateResult.v["s"] = StringValue("a")
    /\ IsNull(mergeObjInput.planObj)
    /\ mergeObjOutput.obj.v["o"] = ObjectNull(InnerAttrTypes)
    /\ mergeObjOutput.obj.v["s"] = StringValue("a")

(***************************************************************************)
(* Claims about decoding and encoding (SpecConvert).                       *)
(***************************************************************************)
ObjectToMapCalled == convOutput # Idle /\ convOutput.op = "objectToMap"
Decoded           == convOutput # Idle /\ convOutput.op = "decode"
RootNotKnown      == IsObjectInput /\ (IsNull(convInput.obj) \/ IsUnknown(convInput.obj))

\* The field of the flattened field list that an attribute name belongs to.
FlatFieldsOf(prototype) ==
    LET fields == resolveFieldsSquashed(prototype.struct)
    IN {fields[n] : n \in DOMAIN fields}
FieldsNamed(prototype, key) == {f \in FlatFieldsOf(prototype) : resolveFieldName(f) = key}

\* C15: decoding an Object that is Null or Unknown at the root fails with an
\* error and returns no mapping (and no record), whatever the prototype is.
C15_NullOrUnknownRootFails ==
    /\ (ObjectToMapCalled /\ RootNotKnown) => (convOutput.err /\ convOutput.result = GoNil)
    /\ (Decoded /\ RootNotKnown) => (convOutput.err /\ convOutput.rec = GoNil)

C15_Witness ==
    /\ ObjectToMapCalled /\ IsUnknown(convInput.obj)
    /\ convInput.prototype = NonStructPrototype
    /\ convOutput.err

\* C16: an Unknown attribute produces no entry in the decoded mapping and the
\* target field stays at its zero value; a Null attribute produces an entry
\* whose value is nil, never a zero scalar.
C16_UnknownSkippedNullExplicitlyNil ==
    /\ (ObjectToMapCalled /\ ~convOutput.err) =>
          \A key \in DOMAIN convInput.obj.v :
             /\ IsUnknown(convInput.obj.v[key]) => key \notin DOMAIN convOutput.result
             /\ IsNull(convInput.obj.v[key]) =>
                   (key \in DOMAIN convOutput.result /\ convOutput.result[key] = GoNil)
    /\ (Decoded /\ ~convOutput.err) =>
          \A key \in DOMAIN convInput.obj.v :
             IsUnknown(convInput.obj.v[key]) =>
                \A field \in FieldsNamed(convInput.prototype, key) :
                   convOutput.rec.v[field.Name] = ZeroOf(field)

C16_Witness ==
    /\ ObjectToMapCalled /\ ~convOutput.err
    /\ convInput.prototype = MixedStruct /\ "name" \in DOMAIN convInput.obj.v
    /\ IsUnknown(convInput.obj.v["name"]) /\ IsNull(convInput.obj.v["count"])
    /\ DOMAIN convOutput.result = {"count", "enabled", "title"}

\* An attribute holding the zero value of a non-pointer, non-boolean scalar field.
IsPlainZero(prototype, obj, key) ==
    /\ IsKnown(obj.v[key])
    /\ obj.v[key] \in {StringValue(""), Int64Value(0)}
    /\ \E field \in FieldsNamed(prototype, key) : ~IsPointerField(field)

\* C17: a known attribute that is the zero value ("" or 0) of a non-pointer,
\* non-boolean field is omitted from the decoded mapping, so the decoded record
\* is the one decoded when the attribute is not set; a boolean false of a
\* non-pointer field is not omitted.
C17_PlainZeroIsOmittedFalseIsKept ==
    /\ (ObjectToMapCalled /\ ~convOutput.err) =>
          \A key \in DOMAIN convInput.obj.v :
             /\ IsPlainZero(convInput.prototype, convInput.obj, key) =>
                   key \notin DOMAIN convOutput.result
             /\ (/\ convInput.obj.v[key] = BoolValue(FALSE)
                 /\ \E field \in FieldsNamed(convInput.prototype, key) : ~IsPointerField(field)) =>
                   (key \in DOMAIN convOutput.result /\ convOutput.result[key] = GoBool(FALSE))
    /\ (Decoded /\ ~convOutput.err) =>
          \A key \in DOMAIN convInput.obj.v :
             IsPlainZero(convInput.prototype, convInput.obj, key) =>
                convOutput.rec =
                   StructFromPlanObject([convInput.obj EXCEPT !.v[key] = NullOf(TypeOf(@))],
                                        convInput.prototype).val

C17_Witness ==
    /\ ObjectToMapCalled /\ ~convOutput.err
    /\ convInput.prototype = MixedStruct /\ "name" \in DOMAIN convInput.obj.v
    /\ convInput.obj.v["name"] = StringValue("") /\ convInput.obj.v["count"] = Int64Value(0)
    /\ convInput.obj.v["enabled"] = BoolValue(FALSE)
    /\ convInput.obj.v["title"] = StringValue("a")
    /\ DOMAIN convOutput.result = {"enabled", "title"}

\* C18: for every pointer-optional field of the flattened field list, wherever
\* it is declared (directly, inside a squashed embedded record, or after one), a
\* known attribute, the zero value included, is in the decoded mapping wrapped
\* in a new pointer.
C18_PointerFieldsAreWrappedWhereverDeclared ==
    (ObjectToMapCalled /\ ~convOutput.err) =>
       \A key \in DOMAIN convInput.obj.v :
          (/\ IsKnown(convInput.obj.v[key])
           /\ \E field \in FieldsNamed(convInput.prototype, key) : IsPointerField(field)) =>
             /\ key \in DOMAIN convOutput.result
             /\ convOutput.result[key] =
                   GoPtr(attrToInterface(key, convInput.obj.v[key], convInput.prototype).val)

Encoded        == convOutput # Idle /\ convOutput.op = "encode"
EncodedDecoded == convOutput # Idle /\ convOutput.op = "encode-decode"

\* A record type whose fields are all pointer-optional.
AllPointerOptional(prototype) == \A field \in FlatFieldsOf(prototype) : IsPointerField(field)

\* C19: for every record r of a type whose fields are all pointer-optional,
\* encoding r against the type's schema succeeds and decoding the result yields
\* a record equal to r, pointers to zero values and nil fields included.
C19_AllPointerRecordsRoundTrip ==
    /\ (Encoded /\ AllPointerOptional(convInput.prototype)) => ~convOutput.err
    /\ (EncodedDecoded /\ AllPointerOptional(convInput.prototype)) =>
          (~convOutput.err /\ convOutput.rec = convInput.rec)

DecodedEncoded == convOutput # Idle /\ convOutput.op = "decode-encode"

\* The attributes of the input object that are Null and belong to a field.
NullAttributes ==
    {key \in DOMAIN convInput.obj.v :
        IsNull(convInput.obj.v[key]) /\ FieldsNamed(convInput.prototype, key) # {}}

\* Decoding a Null attribute leaves its field at the zero/nil value.
NullDecodesToZero ==
    (Decoded /\ ~convOutput.err) =>
       \A key \in NullAttributes :
          \A field \in FieldsNamed(convInput.prototype, key) :
             convOutput.rec.v[field.Name] = ZeroOf(field)

\* C20 as stated: decoding an Object whose attribute a is Null yields a record
\* whose field a is the zero/nil value, and re-encoding that record yields
\* a = Null again.
C20_NullAttributeReencodesAsNull ==
    /\ NullDecodesToZero
    /\ (DecodedEncoded /\ ~convOutput.err) =>
          \A key \in NullAttributes : IsNull(convOutput.obj.v[key])

\* The known value that encodes the zero value of a field that is no pointer.
ZeroAttrOf(t) ==
    CASE t.k = "String" -> StringValue("")
      [] t.k = "Int64"  -> Int64Value(0)
      [] t.k = "Bool"   -> BoolValue(FALSE)
      [] t.k = "List"   -> ListKnown(t.et, << >>)

\* C20 amended: decoding an Object whose attribute a is Null yields a record
\* whose field a is the zero/nil value; re-encoding that record succeeds and
\* yields a = Null again when the field is pointer-optional, and the known zero
\* value of the attribute's type when the field is a plain string, integer,
\* boolean or list.
C20_NullReencodesAsNullForPointersZeroOtherwise ==
    /\ NullDecodesToZero
    /\ DecodedEncoded =>
          /\ ~convOutput.err
          /\ \A key \in NullAttributes :
                \A field \in FieldsNamed(convInput.prototype, key) :
                   IF IsPointerField(field) THEN IsNull(convOutput.obj.v[key])
                   ELSE convOutput.obj.v[key] = ZeroAttrOf(TypeOf(convInput.obj.v[key]))

C20_Witness ==
    /\ DecodedEncoded /\ ~convOutput.err
    /\ convInput.prototype = MixedStruct /\ "name" \in DOMAIN convInput.obj.v
    /\ IsNull(convInput.obj.v["name"]) /\ IsNull(convInput.obj.v["title"])
    /\ convOutput.rec.v["Name"] = GoString("") /\ convOutput.rec.v["Title"] = GoNilPtr
    /\ convOutput.obj.v["name"] = StringValue("") /\ IsNull(convOutput.obj.v["title"])

\* What the encoding was handed and what it emitted.
EncodeDone   == convOutput # Idle /\ convOutput.op \in {"encode", "decode-encode"}
EncodeSchema == SchemaAttrsOf(convInput.prototype, convInput.extra)
EncodePlan   ==
    IF convInput.extra \in {"plan", "both", "planLacks"} THEN convInput.obj ELSE NilModel
EncodeState  == StateObjectOf(convInput.prototype, convInput.extra)
PlanHolds(key)  == EncodePlan # NilModel /\ key \in DOMAIN EncodePlan.v
StateHolds(key) == EncodeState # NilModel /\ key \in DOMAIN EncodeState.v

\* The emitted Object holds every schema-declared attribute, and a nil pointer
\* field is encoded as the null of the declared type.
EmitsEveryAttributeNilAsNull ==
    EncodeDone =>
       /\ ~convOutput.err
       /\ IsKnown(convOutput.obj)
       /\ DOMAIN convOutput.obj.v = DOMAIN EncodeSchema
       /\ \A key \in DOMAIN EncodeSchema :
             \A field \in FieldsNamed(convInput.prototype, key) :
                convOutput.rec.v[field.Name] = GoNilPtr =>
                   convOutput.obj.v[key] = NullOf(EncodeSchema[key])

\* C21 as stated: the Object emitted by encode contains every schema-declared
\* attribute; an attribute with no corresponding record field is filled with
\* the null value of its declared type, and a nil pointer field encodes to the
\* null of its declared type.
C21_EveryAttributePresentMissingOnesNull ==
    /\ EmitsEveryAttributeNilAsNull
    /\ EncodeDone =>
          \A key \in DOMAIN EncodeSchema :
             FieldsNamed(convInput.prototype, key) = {} =>
                convOutput.obj.v[key] = NullOf(EncodeSchema[key])

\* C21 amended: the Object emitted by encode contains every schema-declared
\* attribute; an attribute with no corresponding record field is filled with
\* the null value of its declared type when neither the plan nor the prior
\* state handed to the encoding holds it, and a nil pointer field encodes to
\* the null of its declared type.
C21_EveryAttributePresentNullWithoutPlanAndState ==
    /\ EmitsEveryAttributeNilAsNull
    /\ EncodeDone =>
          \A key \in DOMAIN EncodeSchema :
             (FieldsNamed(convInput.prototype, key) = {} /\ ~PlanHolds(key) /\ ~StateHolds(key)) =>
                convOutput.obj.v[key] = NullOf(EncodeSchema[key])

C21_Witness ==
    /\ EncodeDone /\ ~convOutput.err
    /\ convInput.prototype = PointerStruct /\ convInput.extra = "null"
    /\ convOutput.rec.v["Title"] = GoNilPtr /\ convOutput.rec.v["Size"] = GoPtr(GoInt64(0))
    /\ convOutput.obj.v["id"] = StringNull /\ convOutput.obj.v["title"] = StringNull
    /\ convOutput.obj.v["size"] = Int64Value(0)

\* C30: an attribute of the schema that no field of the record encodes is
\* filled with the plan's value if a plan is given and holds it, else with the
\* prior state's value if a state is given and holds it, else with the null of
\* the declared type; an attribute encoded from a field holds the encoded
\* value, whatever the plan and the state hold for it.
C30_FillPrecedencePlanStateNull ==
    (EncodeDone /\ ~convOutput.err) =>
       \A key \in DOMAIN EncodeSchema :
          IF FieldsNamed(convInput.prototype, key) # {}
          THEN \E field \in FieldsNamed(convInput.prototype, key) :
                  convOutput.obj.v[key] =
                     interfaceTypeToAttr(convOutput.rec.v[field.Name], EncodeSchema[key]).val
          ELSE convOutput.obj.v[key] =
                  IF PlanHolds(key) THEN EncodePlan.v[key]
                  ELSE IF StateHolds(key) THEN EncodeState.v[key]
                  ELSE NullOf(EncodeSchema[key])

C30_Witness ==
    /\ EncodeDone /\ ~convOutput.err
    /\ convInput.prototype = PointerStruct /\ convInput.extra = "both"
    /\ convInput.obj.v["id"] = StringValue("i-1") /\ EncodeState.v["id"] = StringValue("i-0")
    /\ convOutput.obj.v["id"] = StringValue("i-1")
    /\ IsNull(convInput.obj.v["title"]) /\ EncodeState.v["title"] = StringValue("a")
    /\ convOutput.obj.v["title"] = StringNull

(***************************************************************************)
(* The six immutable guards compared (SpecGuard).                          *)
(***************************************************************************)
\* The combination a guard decides on.
GuardCase(req) ==
    [stateIsNull |-> req.StateRawIsNull, planIsNull |-> req.PlanRawIsNull,
     planUnknown |-> IsUnknown(req.PlanValue), configUnknown |-> IsUnknown(req.ConfigValue),
     planEqualsState |-> Equal(req.PlanValue, req.StateValue)]

\* The guard of a kind run on a request of that kind.
RunGuard(kind, req) ==
    CASE kind = "String" -> PlanModifyString(req, NewResponse(req))
      [] kind = "Int64"  -> PlanModifyInt64(req, NewResponse(req))
      [] kind = "Bool"   -> PlanModifyBool(req, NewResponse(req))
      [] kind = "List"   -> PlanModifyList(req, NewResponse(req))
      [] kind = "Set"    -> PlanModifySet(req, NewResponse(req))
      [] kind = "Map"    -> PlanModifyMap(req, NewResponse(req))

\* Every (combination, rejected) pair that some guard produces on some request.
GuardDecisions ==
    UNION {{<<GuardCase(req), HasError(RunGuard(kind, req).Diagnostics)>> :
               req \in Requests(GuardTestValues(kind))} : kind \in GuardKinds}

\* C29: the six guards make the same accept/reject decision: whenever a guard
\* has run, every guard of every kind decides the same on every request with
\* the same combination of state-is-null, plan-is-null, plan-value-unknown,
\* config-value-unknown and plan-equals-state; and the plan value is unchanged.
C29_SixGuardsDecideAlike ==
    guardResp # Idle =>
       /\ guardResp.PlanValue = guardReq.PlanValue
       /\ \A decision \in GuardDecisions :
             decision[1] = GuardCase(guardReq) =>
                decision[2] = HasError(guardResp.Diagnostics)

C29_Witness ==
    /\ guardResp # Idle /\ guardKind = "Map"
    /\ HasError(guardResp.Diagnostics)
    /\ <<GuardCase(guardReq), TRUE>> \in GuardDecisions
    /\ \E req \in Requests(BoolTestValues) :
          GuardCase(req) = GuardCase(guardReq) /\ HasError(RunGuard("Bool", req).Diagnostics)

(***************************************************************************)
(* Wire-name conflicts in schema derivation (SpecSchema).                  *)
(***************************************************************************)
\* Two fields of the flattened field list of a record type resolve to the same
\* wire name.
WireNameConflict(model) ==
    LET fields == resolveFieldsSquashed(model)
    IN \E i, j \in DOMAIN fields :
          i # j /\ resolveFieldName(fields[i]) = resolveFieldName(fields[j])

\* The create model of the action definition.
CreateModelOf(definition) == definition.Schemas["create"]

\* C26: schema derivation for a record type in which two fields resolve to the
\* same wire name after flattening squashed sub-records fails with an error; it
\* never silently keeps one of the two fields.
C26_WireNameConflictFailsDerivation ==
    (respSchema # Idle /\ WireNameConflict(CreateModelOf(actionDefinition))) =>
       /\ HasError(respSchema.Diagnostics)
       /\ "id" \notin DOMAIN respSchema.Schema.Attributes

(***************************************************************************)
(* Plan/state reconciliation: setTargetValueFromPlanAndState and           *)
(* StructFromPlanAndStateObject (unnamed/part_006).                        *)
(***************************************************************************)
\* stateVal of a field the state's type does not have: !stateVal.IsValid().
Invalid == [g |-> "invalid"]

\* reflect.Value.IsZero: a nil pointer and a nil slice are zero, a made slice
\* or map is not, a struct is zero when every field is.
RECURSIVE ReflectIsZero(_)
ReflectIsZero(goVal) ==
    CASE goVal.g = "string"   -> goVal.v = ""
      [] goVal.g = "int64"    -> goVal.v = 0
      [] goVal.g = "bool"     -> goVal.v = FALSE
      [] goVal.g = "ptr"      -> goVal.elem = GoNil
      [] goVal.g = "nilslice" -> TRUE
      [] goVal.g = "struct"   -> \A name \in DOMAIN goVal.v : ReflectIsZero(goVal.v[name])
      [] OTHER                -> FALSE

\* One dereference (the model's pointers point at values, never at pointers).
Indirect(goVal) == IF goVal.g = "ptr" /\ goVal.elem # GoNil THEN goVal.elem ELSE goVal

\* target.Set of a dereferenced plan value: its address when the target is a
\* pointer.
SetPlanValue(targetField, planVal) ==
    IF IsPointerField(targetField) THEN GoPtr(planVal) ELSE planVal

\* reflect.DeepEqual(planVal.Interface(), stateVal.Interface()) on simple
\* values: a pointer never equals the value it points at.
DeepEqualSimple(planVal, stateVal) ==
    stateVal.g = planVal.g /\ stateVal.v = planVal.v

\* The field of a flattened field list with the given Go name.
FieldNamed(fields, name) == fields[CHOOSE n \in DOMAIN fields : fields[n].Name = name]

RECURSIVE setTargetValueFromPlanAndState(_, _, _, _)

setSimpleType_BoolLikeOthers(planVal, stateVal, target, targetField) ==
    IF ~ReflectIsZero(planVal)
       /\ (ReflectIsZero(stateVal) \/ ~DeepEqualSimple(planVal, stateVal))
    THEN SetPlanValue(targetField, planVal)
    ELSE target

setSimpleType_PlanAlways(planVal, stateVal, target, targetField) ==
    SetPlanValue(targetField, planVal)

\* "Handle basic types": a bool sets the target to the plan value; another
\* simple value does when it is not zero and the state value is zero or
\* differs from it; else the target is left as it is.
setSimpleType(planVal, stateVal, target, targetField) ==
    IF planVal.g = "bool" THEN SetPlanValue(targetField, planVal)
    ELSE IF ~ReflectIsZero(planVal)
            /\ (ReflectIsZero(stateVal) \/ ~DeepEqualSimple(planVal, stateVal))
    THEN SetPlanValue(targetField, planVal)
    ELSE target

setComplexType_Wholesale(planVal, stateVal, target, targetField) ==
    IF planVal.g = "nilslice" THEN target ELSE SetPlanValue(targetField, planVal)

\* "Handle complex types": a slice or map that is not nil replaces the target;
\* a struct replaces it when the state value is zero, else every exported
\* field of the plan value that the target has is reconciled with the state's
\* field of that name.
setComplexType(planVal, stateVal, target, targetField) ==
    CASE planVal.g \in {"slice", "nilslice", "map"} ->
           IF planVal.g # "nilslice" THEN SetPlanValue(targetField, planVal) ELSE target
      [] planVal.g = "struct" ->
           IF ReflectIsZero(stateVal) THEN SetPlanValue(targetField, planVal)
           ELSE LET stateValNonPtr == Indirect(stateVal)
                    targetNonPtr   == Indirect(target)
                    planFields     == resolveFieldsSquashed(planVal.type.struct)
                    targetFields   == resolveFieldsSquashed(targetField.Embedded)
                    reconciled ==
                        [name \in DOMAIN targetNonPtr.v |->
                            IF name \in DOMAIN planVal.v /\ FieldNamed(planFields, name).exported
                            THEN setTargetValueFromPlanAndState(
                                     planVal.v[name],
                                     IF name \in DOMAIN stateValNonPtr.v
                                     THEN stateValNonPtr.v[name] ELSE Invalid,
                                     targetNonPtr.v[name],
                                     FieldNamed(targetFields, name))
                            ELSE targetNonPtr.v[name]]
                    struct == [targetNonPtr EXCEPT !.v = reconciled]
                IN IF target.g = "ptr" THEN GoPtr(struct) ELSE struct
      [] OTHER -> target

\* setTargetValueFromPlanAndState(planVal, stateVal, target): the value the
\* target holds afterwards; targetField gives target.Type().
setTargetValueFromPlanAndState(planVal, stateVal, target, targetField) ==
    IF planVal = GoNilPtr THEN target
    ELSE LET plan == Indirect(planVal)
         IN IF stateVal = Invalid THEN SetPlanValue(targetField, plan)
            ELSE IF plan.g \in {"string", "int64", "bool"}
            THEN setSimpleType(plan, stateVal, target, targetField)
            ELSE setComplexType(plan, stateVal, target, targetField)

\* reflect.New(planReflectedPrototype).Elem(): the zero record of a type.
ZeroStruct(prototype) ==
    LET fields == resolveFieldsSquashed(prototype.struct)
    IN GoStruct(prototype, [name \in {fields[n].Name : n \in DOMAIN fields} |->
                               ZeroOf(FieldNamed(fields, name))])

\* The first loop: every field of the state record is copied into the field of
\* that name of the new record, by address when that field is a pointer and
\* the value is none.
copyStateFields(planFinalizedStruct, stateValue) ==
    LET planFields == resolveFieldsSquashed(planFinalizedStruct.type.struct)
    IN [planFinalizedStruct EXCEPT !.v =
           [name \in DOMAIN planFinalizedStruct.v |->
               IF name \in DOMAIN stateValue.v
               THEN (IF IsPointerField(FieldNamed(planFields, name))
                        /\ stateValue.v[name].g # "ptr"
                     THEN GoPtr(stateValue.v[name]) ELSE stateValue.v[name])
               ELSE planFinalizedStruct.v[name]]]

\* The second loop: every field of the plan record is reconciled into the new
\* record.
reconcilePlanFields(planFinalizedStruct, planValue, stateValue) ==
    LET planFields == resolveFieldsSquashed(planValue.type.struct)
    IN [planFinalizedStruct EXCEPT !.v =
           [name \in DOMAIN planFinalizedStruct.v |->
               setTargetValueFromPlanAndState(
                   planValue.v[name],
                   IF name \in DOMAIN stateValue.v THEN stateValue.v[name] ELSE Invalid,
                   planFinalizedStruct.v[name],
                   FieldNamed(planFields, name))]]

StructFromPlanAndStateObject_PlanOnly(planObj, stateObj, planPrototype, statePrototype) ==
    StructFromPlanObject(planObj, planPrototype)

\* Lines 751-773: the new record of the plan's type, filled from the state
\* record and then reconciled with the plan record.
reconcileStructs(planNewStruct, stateNewStruct, planPrototype) ==
    IF planNewStruct.err \/ stateNewStruct.err THEN [val |-> GoNil, err |-> TRUE]
    ELSE [val |-> reconcilePlanFields(
                      copyStateFields(ZeroStruct(planPrototype), stateNewStruct.val),
                      planNewStruct.val, stateNewStruct.val),
          err |-> FALSE]

\* Lines 732-750: both maps are decoded into new records of their types.
decodeDataMaps(planDataMap, stateDataMap, planPrototype, statePrototype) ==
    IF stateDataMap.err \/ planDataMap.err THEN [val |-> GoNil, err |-> TRUE]
    ELSE reconcileStructs(mapstructureDecode(planDataMap.result, planPrototype),
                          mapstructureDecode(stateDataMap.result, statePrototype),
                          planPrototype)

\* StructFromPlanAndStateObject(ctx, plan, state, planPrototype, statePrototype),
\* planObj and stateObj being what plan.Get and state.Get yield.
StructFromPlanAndStateObject(planObj, stateObj, planPrototype, statePrototype) ==
    decodeDataMaps(objectToMap(planObj, planPrototype), objectToMap(stateObj, statePrototype),
                   planPrototype, statePrototype)

(***************************************************************************)
(* The plans and states of the reconciliation: records with a string, a    *)
(* bool, a pointer, a field only the plan's type has and a field only the  *)
(* state's type has; records of pointers; records with a nested record two *)
(* levels deep.                                                            *)
(***************************************************************************)
rEnabled == StructField("Enabled", "enabled", "", "Bool", "none")
rActive  == StructField("Active", "active", "", "Bool", "none")
rNote    == StructField("Note", "note", "", "String", "none")
rStatus  == StructField("Status", "status", "", "String", "none")
rDeep    == [StructField("Deep", "deep", "", "Struct", "none") EXCEPT !.Embedded = <<rNote>>]
rInner   == [StructField("Inner", "inner", "", "Struct", "none") EXCEPT !.Embedded = <<rNote, rActive, rDeep>>]

FlatPlanStruct     == StructPrototype(<<fName, rEnabled, pSize, fRegion>>)
FlatStateStruct    == StructPrototype(<<fName, rEnabled, pSize, rStatus>>)
PointerPlanStruct  == StructPrototype(<<pTitle, pActive>>)
PointerStateStruct == StructPrototype(<<pTitle, pActive, rStatus>>)
NestedPlanStruct   == StructPrototype(<<fName, rInner>>)
NestedStateStruct  == StructPrototype(<<fName, rInner, rStatus>>)

\* The known objects whose attributes take the values listed for them.
ObjectsFrom(attrTypes, values) ==
    {ObjectKnown(attrTypes, [k \in DOMAIN attrTypes |-> values[k][choice[k]]]) :
        choice \in {c \in [DOMAIN attrTypes -> 1..5] :
                       \A k \in DOMAIN attrTypes : c[k] <= Len(values[k])}}

PlanStrings  == <<StringNull, StringUnknown, StringValue(""), StringValue("a"), StringValue("b")>>
StateStrings == <<StringNull, StringValue(""), StringValue("a")>>
PlanBools    == <<BoolNull, BoolValue(FALSE), BoolValue(TRUE)>>
StateBools   == <<BoolNull, BoolValue(FALSE), BoolValue(TRUE)>>
PlanInts     == <<Int64Null, Int64Value(0), Int64Value(7)>>
StateInts    == <<Int64Null, Int64Value(0), Int64Value(8)>>

FlatPlanTypes  == [name |-> StringType, enabled |-> BoolType, size |-> Int64Type, region |-> StringType]
FlatStateTypes == [name |-> StringType, enabled |-> BoolType, size |-> Int64Type, status |-> StringType]

FlatPlans ==
    ObjectsFrom(FlatPlanTypes,
                [name |-> PlanStrings, enabled |-> PlanBools, size |-> PlanInts,
                 region |-> <<StringValue(""), StringValue("r")>>])
FlatStates ==
    ObjectsFrom(FlatStateTypes,
                [name |-> StateStrings, enabled |-> StateBools, size |-> StateInts,
                 status |-> <<StringValue("ready")>>])

PointerPlanTypes  == [title |-> StringType, active |-> BoolType]
PointerStateTypes == [title |-> StringType, active |-> BoolType, status |-> StringType]

PointerPlans  == ObjectsFrom(PointerPlanTypes, [title |-> PlanStrings, active |-> PlanBools])
PointerStates ==
    ObjectsFrom(PointerStateTypes,
                [title |-> StateStrings, active |-> StateBools, status |-> <<StringValue("ready")>>])

DeepTypes  == [note |-> StringType]
InnerTypes == [note |-> StringType, active |-> BoolType, deep |-> ObjectType(DeepTypes)]

DeepPlans  ==
    {ObjectNull(DeepTypes)} \cup
    {ObjectKnown(DeepTypes, [note |-> note]) : note \in {StringValue(""), StringValue("b")}}
DeepStates ==
    {ObjectNull(DeepTypes)} \cup
    {ObjectKnown(DeepTypes, [note |-> note]) : note \in {StringValue(""), StringValue("a")}}
InnerPlans ==
    {ObjectNull(InnerTypes)} \cup
    {ObjectKnown(InnerTypes, [note |-> note, active |-> active, deep |-> deep]) :
        note \in {StringNull, StringValue(""), StringValue("b")},
        active \in {BoolValue(FALSE), BoolValue(TRUE)}, deep \in DeepPlans}
InnerStates ==
    {ObjectNull(InnerTypes)} \cup
    {ObjectKnown(InnerTypes, [note |-> note, active |-> active, deep |-> deep]) :
        note \in {StringValue(""), StringValue("a")},
        active \in {BoolValue(FALSE), BoolValue(TRUE)}, deep \in DeepStates}

NestedPlanTypes  == [name |-> StringType, inner |-> ObjectType(InnerTypes)]
NestedStateTypes == [name |-> StringType, inner |-> ObjectType(InnerTypes), status |-> StringType]

NestedPlans ==
    {ObjectKnown(NestedPlanTypes, [name |-> name, inner |-> inner]) :
        name \in {StringValue(""), StringValue("b")}, inner \in InnerPlans}
NestedStates ==
    {ObjectKnown(NestedStateTypes,
                 [name |-> StringValue("a"), inner |-> inner, status |-> StringValue("ready")]) :
        inner \in InnerStates}

ReconInputs ==
    {[plan |-> plan, state |-> state, planPrototype |-> FlatPlanStruct,
      statePrototype |-> FlatStateStruct] : plan \in FlatPlans, state \in FlatStates}
    \cup
    {[plan |-> plan, state |-> state, planPrototype |-> PointerPlanStruct,
      statePrototype |-> PointerStateStruct] : plan \in PointerPlans, state \in PointerStates}
    \cup
    {[plan |-> plan, state |-> state, planPrototype |-> NestedPlanStruct,
      statePrototype |-> NestedStateStruct] : plan \in NestedPlans, state \in NestedStates}

\* StructFromPlanAndStateObject on the plan and the state; the records the plan
\* and the state decode to on their own are kept beside the result.
CallStructFromPlanAndStateObject ==
    /\ reconInput # Idle /\ reconOutput = Idle
    /\ LET result == StructFromPlanAndStateObject(reconInput.plan, reconInput.state,
                                                  reconInput.planPrototype,
                                                  reconInput.statePrototype)
       IN reconOutput' = [rec |-> result.val, err |-> result.err]
    /\ UNCHANGED <<guardVars, lifeVars, schemaVars, mergeVars, convVars, reconInput, copyVars, crudVars, trigVars>>

InitReconcile ==
    /\ reconInput \in ReconInputs
    /\ reconOutput = Idle
    /\ GuardIdle /\ LifeIdle /\ SchemaIdle /\ MergeIdle /\ MergeObjIdle /\ ConvIdle /\ CopyIdle /\ CrudIdle /\ TrigIdle

NextReconcile == CallStructFromPlanAndStateObject

SpecReconcile == InitReconcile /\ [][NextReconcile]_vars

(***************************************************************************)
(* Claims checked on SpecReconcile.                                        *)
(***************************************************************************)
ReconDone == reconInput # Idle /\ reconOutput # Idle /\ ~reconOutput.err

\* The records the plan and the state decode to on their own.
PlanRecord  == StructFromPlanObject(reconInput.plan, reconInput.planPrototype).val
StateRecord == StructFromPlanObject(reconInput.state, reconInput.statePrototype).val

PlanFieldsOfKind(kinds) ==
    LET fields == resolveFieldsSquashed(reconInput.planPrototype.struct)
    IN {fields[n].Name : n \in {m \in DOMAIN fields : fields[m].Kind \in kinds}}

\* The plan holds a value for the field that is not zero.
PlanSets(name) ==
    PlanRecord.v[name] # GoNilPtr /\ ~ReflectIsZero(Indirect(PlanRecord.v[name]))

\* C22: a boolean field of the reconciled record equals the plan's value, true
\* or false, whatever the state holds for it.
C22_BooleanFieldsTakeThePlanValue ==
    ReconDone =>
        \A name \in PlanFieldsOfKind({"Bool"}) :
            PlanRecord.v[name] # GoNilPtr =>
                Indirect(reconOutput.rec.v[name]) = Indirect(PlanRecord.v[name])

C22_Witness ==
    /\ ReconDone
    /\ \E name \in PlanFieldsOfKind({"Bool"}) :
          /\ name \in DOMAIN StateRecord.v
          /\ Indirect(StateRecord.v[name]) = GoBool(TRUE)
          /\ PlanRecord.v[name] # GoNilPtr
          /\ Indirect(PlanRecord.v[name]) = GoBool(FALSE)
          /\ Indirect(reconOutput.rec.v[name]) = GoBool(FALSE)

\* C23: a string or integer field of the reconciled record holds the plan's
\* value when that is not zero (also when the state's type has no such field),
\* and keeps the state's value when the plan's value is zero or nil.
C23_ScalarTakesNonZeroPlanElseKeepsState ==
    ReconDone =>
        \A name \in PlanFieldsOfKind({"String", "Int"}) :
            Indirect(reconOutput.rec.v[name]) =
                IF PlanSets(name) \/ name \notin DOMAIN StateRecord.v
                THEN Indirect(PlanRecord.v[name])
                ELSE Indirect(StateRecord.v[name])

C23_Witness ==
    /\ ReconDone
    /\ \E name \in PlanFieldsOfKind({"String", "Int"}) :
          /\ ~PlanSets(name)
          /\ name \in DOMAIN StateRecord.v
          /\ StateRecord.v[name] # GoNilPtr
          /\ ~ReflectIsZero(Indirect(StateRecord.v[name]))
          /\ Indirect(reconOutput.rec.v[name]) = Indirect(StateRecord.v[name])
    /\ \E name \in PlanFieldsOfKind({"String", "Int"}) :
          /\ PlanSets(name)
          /\ name \in DOMAIN StateRecord.v
          /\ StateRecord.v[name] # GoNilPtr
          /\ ~ReflectIsZero(Indirect(StateRecord.v[name]))
          /\ Indirect(StateRecord.v[name]) # Indirect(PlanRecord.v[name])
          /\ Indirect(reconOutput.rec.v[name]) = Indirect(PlanRecord.v[name])

\* Every field of the kinds given that the plan record leaves zero holds the
\* state's value in the result, in this record and in every nested record
\* whose state value is not zero.
RECURSIVE KeepsStateWhereZero(_, _, _, _)
KeepsStateWhereZero(planStruct, stateStruct, resultStruct, simpleKinds) ==
    \A name \in DOMAIN planStruct.v \cap DOMAIN stateStruct.v :
        IF planStruct.v[name].g = "struct"
        THEN ReflectIsZero(stateStruct.v[name])
             \/ KeepsStateWhereZero(planStruct.v[name], stateStruct.v[name],
                                    resultStruct.v[name], simpleKinds)
        ELSE (planStruct.v[name].g \in simpleKinds /\ ReflectIsZero(planStruct.v[name]))
                 => resultStruct.v[name] = stateStruct.v[name]

\* Every boolean field holds the plan's value in the result, in this record
\* and in every nested record whose state value is not zero.
RECURSIVE BooleansTakePlan(_, _, _)
BooleansTakePlan(planStruct, stateStruct, resultStruct) ==
    \A name \in DOMAIN planStruct.v \cap DOMAIN stateStruct.v :
        IF planStruct.v[name].g = "struct"
        THEN ReflectIsZero(stateStruct.v[name])
             \/ BooleansTakePlan(planStruct.v[name], stateStruct.v[name], resultStruct.v[name])
        ELSE planStruct.v[name].g = "bool" => resultStruct.v[name] = planStruct.v[name]

HasNestedRecord ==
    /\ ReconDone
    /\ "Inner" \in DOMAIN reconOutput.rec.v
    /\ ~ReflectIsZero(StateRecord.v["Inner"])

\* C24 as stated: in a nested record whose state value is not zero, every inner
\* field the plan leaves at its zero value keeps the state's value, at every
\* depth.
C24_EveryZeroInnerFieldKeepsState ==
    HasNestedRecord =>
        KeepsStateWhereZero(PlanRecord.v["Inner"], StateRecord.v["Inner"],
                            reconOutput.rec.v["Inner"], {"string", "int64", "bool"})

\* C24 amended: in a nested record whose state value is not zero, every inner
\* field that is no boolean and that the plan leaves at its zero value keeps the
\* state's value, at every depth; an inner boolean takes the plan's value.
C24_ZeroInnerFieldsKeepStateBooleansTakePlan ==
    HasNestedRecord =>
        /\ KeepsStateWhereZero(PlanRecord.v["Inner"], StateRecord.v["Inner"],
                               reconOutput.rec.v["Inner"], {"string", "int64"})
        /\ BooleansTakePlan(PlanRecord.v["Inner"], StateRecord.v["Inner"],
                            reconOutput.rec.v["Inner"])

C24_Witness ==
    /\ HasNestedRecord
    /\ PlanRecord.v["Inner"].v["Note"] = GoString("")
    /\ StateRecord.v["Inner"].v["Note"] = GoString("a")
    /\ reconOutput.rec.v["Inner"].v["Note"] = GoString("a")
    /\ PlanRecord.v["Inner"].v["Deep"].v["Note"] = GoString("")
    /\ StateRecord.v["Inner"].v["Deep"].v["Note"] = GoString("a")
    /\ reconOutput.rec.v["Inner"].v["Deep"].v["Note"] = GoString("a")
    /\ PlanRecord.v["Inner"].v["Active"] = GoBool(FALSE)
    /\ StateRecord.v["Inner"].v["Active"] = GoBool(TRUE)
    /\ reconOutput.rec.v["Inner"].v["Active"] = GoBool(FALSE)

(***************************************************************************)
(* DeepCopy (unnamed/part_006).                                            *)
(*                                                                         *)
(* Values with storage: a heap is a sequence of cells and an address is an *)
(* index into it.  A pointer names a cell holding its target, a slice a    *)
(* cell holding its backing array, a map a cell holding its entries; a     *)
(* struct and the value in an interface are held inline.                   *)
(***************************************************************************)
HInt(i)        == [h |-> "int", v |-> i]
HString(str)   == [h |-> "string", v |-> str]
HNilOf(kind)   == [h |-> "nil", of |-> kind]
HPtr(addr)     == [h |-> "ptr", addr |-> addr]
HSlice(addr)   == [h |-> "slice", addr |-> addr]
HMap(addr)     == [h |-> "map", addr |-> addr]
HIface(elem)   == [h |-> "iface", elem |-> elem]
HStruct(fields) == [h |-> "struct", fields |-> fields]
HField(name, exported, val) == [name |-> name, exported |-> exported, val |-> val]

VarCell(val)       == [cell |-> "var", val |-> val]
ArrayCell(elems)   == [cell |-> "array", elems |-> elems]
MapCell(keys, entries) == [cell |-> "map", keys |-> keys, entries |-> entries]

\* reflect.New(v.Type()).Elem() for the value of a field: the zero value of
\* its type.
RECURSIVE HZeroOf(_)
HZeroOf(val) ==
    CASE val.h = "int"    -> HInt(0)
      [] val.h = "string" -> HString("")
      [] val.h = "nil"    -> val
      [] val.h = "ptr"    -> HNilOf("ptr")
      [] val.h = "slice"  -> HNilOf("slice")
      [] val.h = "map"    -> HNilOf("map")
      [] val.h = "iface"  -> HNilOf("iface")
      [] val.h = "struct" ->
           HStruct([n \in DOMAIN val.fields |->
                       [val.fields[n] EXCEPT !.val = HZeroOf(val.fields[n].val)]])

RECURSIVE deepCopy(_, _)
RECURSIVE deepCopyElems(_, _)
RECURSIVE deepCopyFields(_, _)

\* deepCopy(v): the copy and the heap after the allocations it made.
deepCopy(v, heap) ==
    CASE v.h = "ptr" ->
           LET elemCopy == deepCopy(heap[v.addr].val, heap)
           IN [val |-> HPtr(Len(elemCopy.heap) + 1),
               heap |-> Append(elemCopy.heap, VarCell(elemCopy.val))]
      [] v.h = "iface" ->
           LET innerCopy == deepCopy(v.elem, heap)
           IN [val |-> HIface(innerCopy.val), heap |-> innerCopy.heap]
      [] v.h = "slice" ->
           LET cpy == deepCopyElems(heap[v.addr].elems, heap)
           IN [val |-> HSlice(Len(cpy.heap) + 1),
               heap |-> Append(cpy.heap, ArrayCell(cpy.vals))]
      [] v.h = "map" ->
           LET cell == heap[v.addr]
               cpy  == deepCopyElems(cell.entries, heap)
           IN [val |-> HMap(Len(cpy.heap) + 1),
               heap |-> Append(cpy.heap, MapCell(cell.keys, cpy.vals))]
      [] v.h = "struct" ->
           LET cpy == deepCopyFields(v.fields, heap)
           IN [val |-> HStruct(cpy.vals), heap |-> cpy.heap]
      [] OTHER -> [val |-> v, heap |-> heap]

\* The loops over v.Index(i) and over v.MapKeys(): the copies of the
\* elements, one after the other.
deepCopyElems(elems, heap) ==
    IF elems = << >> THEN [vals |-> << >>, heap |-> heap]
    ELSE LET first == deepCopy(Head(elems), heap)
             rest  == deepCopyElems(Tail(elems), first.heap)
         IN [vals |-> <<first.val>> \o rest.vals, heap |-> rest.heap]

\* The loop over v.Field(i): a field that cannot be set (an unexported one) is
\* skipped and keeps the zero value of the new struct.
deepCopyFields(fields, heap) ==
    IF fields = << >> THEN [vals |-> << >>, heap |-> heap]
    ELSE LET field == Head(fields)
             first == IF field.exported THEN deepCopy(field.val, heap)
                      ELSE [val |-> HZeroOf(field.val), heap |-> heap]
             rest  == deepCopyFields(Tail(fields), first.heap)
         IN [vals |-> <<[field EXCEPT !.val = first.val]>> \o rest.vals, heap |-> rest.heap]

\* DeepCopy(v): nil for nil, else deepCopy(reflect.ValueOf(v)).Interface().
DeepCopy(v, heap) ==
    IF v = HNilOf("iface") THEN [val |-> v, heap |-> heap] ELSE deepCopy(v, heap)

\* The value with everything it reaches through the heap, addresses left out:
\* what reflect.DeepEqual compares.
RECURSIVE Reify(_, _)
Reify(v, heap) ==
    CASE v.h = "ptr"    -> [h |-> "ptr", to |-> Reify(heap[v.addr].val, heap)]
      [] v.h = "iface"  -> [h |-> "iface", elem |-> Reify(v.elem, heap)]
      [] v.h = "slice"  ->
           [h |-> "slice",
            elems |-> [n \in DOMAIN heap[v.addr].elems |-> Reify(heap[v.addr].elems[n], heap)]]
      [] v.h = "map"    ->
           [h |-> "map", keys |-> heap[v.addr].keys,
            entries |-> [n \in DOMAIN heap[v.addr].entries |->
                            Reify(heap[v.addr].entries[n], heap)]]
      [] v.h = "struct" ->
           [h |-> "struct",
            fields |-> [n \in DOMAIN v.fields |->
                           [v.fields[n] EXCEPT !.val = Reify(v.fields[n].val, heap)]]]
      [] OTHER -> v

\* The cells a value reaches.
RECURSIVE Reach(_, _)
Reach(v, heap) ==
    CASE v.h = "ptr"    -> {v.addr} \cup Reach(heap[v.addr].val, heap)
      [] v.h = "iface"  -> Reach(v.elem, heap)
      [] v.h = "slice"  ->
           {v.addr} \cup UNION {Reach(heap[v.addr].elems[n], heap) : n \in DOMAIN heap[v.addr].elems}
      [] v.h = "map"    ->
           {v.addr} \cup UNION {Reach(heap[v.addr].entries[n], heap) : n \in DOMAIN heap[v.addr].entries}
      [] v.h = "struct" -> UNION {Reach(v.fields[n].val, heap) : n \in DOMAIN v.fields}
      [] OTHER -> {}

\* A write to every scalar a value holds inline.
RECURSIVE Overwrite(_)
Overwrite(v) ==
    CASE v.h = "int"    -> HInt(99)
      [] v.h = "string" -> HString("changed")
      [] v.h = "iface"  -> HIface(Overwrite(v.elem))
      [] v.h = "struct" ->
           HStruct([n \in DOMAIN v.fields |->
                       [v.fields[n] EXCEPT !.val = Overwrite(v.fields[n].val)]])
      [] OTHER -> v

\* A write to every scalar held in one cell.
OverwriteCell(cell) ==
    CASE cell.cell = "var"   -> VarCell(Overwrite(cell.val))
      [] cell.cell = "array" -> ArrayCell([n \in DOMAIN cell.elems |-> Overwrite(cell.elems[n])])
      [] cell.cell = "map"   ->
           MapCell(cell.keys, [n \in DOMAIN cell.entries |-> Overwrite(cell.entries[n])])

MaxMutations == 2

CopyScenarios == {"schema", "unexported", "nested", "aliased", "nils", "nilRoot"}

\* The record graphs DeepCopy is applied to.
CopyRoot(scenario) ==
    CASE scenario = "schema"     -> HPtr(5)
      [] scenario = "unexported" -> HPtr(2)
      [] scenario = "nested"     -> HPtr(5)
      [] scenario = "aliased"    -> HPtr(2)
      [] scenario = "nils"       -> HPtr(1)
      [] scenario = "nilRoot"    -> HNilOf("iface")

CopyHeap(scenario, str, int) ==
    CASE scenario = "schema" ->
           <<ArrayCell(<<HInt(int), HInt(1)>>),
             MapCell(<<"k">>, <<HString(str)>>),
             VarCell(HInt(int)),
             ArrayCell(<<HString(str)>>),
             VarCell(HStruct(<<HField("Name", TRUE, HString(str)),
                               HField("Tags", TRUE, HSlice(1)),
                               HField("Labels", TRUE, HMap(2)),
                               HField("Size", TRUE, HPtr(3)),
                               HField("Extra", TRUE, HIface(HSlice(4)))>>))>>
      [] scenario = "unexported" ->
           <<ArrayCell(<<HInt(int)>>),
             VarCell(HStruct(<<HField("Name", TRUE, HString(str)),
                               HField("secret", FALSE, HString(str)),
                               HField("cache", FALSE, HSlice(1))>>))>>
      [] scenario = "nested" ->
           <<ArrayCell(<<HString(str)>>),
             VarCell(HStruct(<<HField("Count", TRUE, HInt(int)),
                               HField("Tags", TRUE, HSlice(1))>>)),
             ArrayCell(<<HPtr(2), HNilOf("ptr")>>),
             MapCell(<<"a", "b">>, <<HSlice(3), HNilOf("slice")>>),
             VarCell(HStruct(<<HField("Groups", TRUE, HMap(4)),
                               HField("Inner", TRUE,
                                      HStruct(<<HField("Note", TRUE, HString(str))>>))>>))>>
      [] scenario = "aliased" ->
           <<VarCell(HInt(int)),
             VarCell(HStruct(<<HField("First", TRUE, HPtr(1)),
                               HField("Second", TRUE, HPtr(1)),
                               HField("Name", TRUE, HString(str))>>))>>
      [] scenario = "nils" ->
           <<VarCell(HStruct(<<HField("Count", TRUE, HInt(int)),
                               HField("Size", TRUE, HNilOf("ptr")),
                               HField("Tags", TRUE, HNilOf("slice")),
                               HField("Labels", TRUE, HNilOf("map")),
                               HField("Extra", TRUE, HNilOf("iface")),
                               HField("Any", TRUE, HIface(HString(str)))>>))>>
      [] scenario = "nilRoot" -> <<VarCell(HInt(int)), VarCell(HString(str))>>

\* DeepCopy of the original.
CallDeepCopy ==
    /\ copyState # Idle /\ copyState.phase = "input"
    /\ LET copied == DeepCopy(copyState.original, copyState.heap)
       IN copyState' = [copyState EXCEPT !.phase = "copied", !.copy = copied.val,
                                         !.heap = copied.heap, !.copied = copied.heap]
    /\ UNCHANGED <<guardVars, lifeVars, schemaVars, mergeVars, convVars, reconVars, crudVars, trigVars>>

\* The state after a write to every scalar of one cell.
WriteTo(addr, side) ==
    [copyState EXCEPT !.heap[addr] = OverwriteCell(@), !.side = side, !.mutations = @ + 1]

\* A write through the original to one cell it reaches.
MutateOriginal ==
    /\ copyState # Idle /\ copyState.phase = "copied"
    /\ copyState.mutations < MaxMutations
    /\ copyState.side \in {"none", "original"}
    /\ \E addr \in Reach(copyState.original, copyState.heap) :
          copyState' = WriteTo(addr, "original")
    /\ UNCHANGED <<guardVars, lifeVars, schemaVars, mergeVars, convVars, reconVars, crudVars, trigVars>>

\* A write through the copy to one cell it reaches.
MutateCopy ==
    /\ copyState # Idle /\ copyState.phase = "copied"
    /\ copyState.mutations < MaxMutations
    /\ copyState.side \in {"none", "copy"}
    /\ \E addr \in Reach(copyState.copy, copyState.heap) :
          copyState' = WriteTo(addr, "copy")
    /\ UNCHANGED <<guardVars, lifeVars, schemaVars, mergeVars, convVars, reconVars, crudVars, trigVars>>

InitCopy ==
    /\ \E scenario \in CopyScenarios, str \in {"", "a"}, int \in {0, 7} :
          copyState = [phase |-> "input", scenario |-> scenario,
                       original |-> CopyRoot(scenario),
                       before |-> CopyHeap(scenario, str, int),
                       heap |-> CopyHeap(scenario, str, int),
                       copy |-> HNilOf("iface"), copied |-> << >>,
                       side |-> "none", mutations |-> 0]
    /\ GuardIdle /\ LifeIdle /\ SchemaIdle /\ MergeIdle /\ MergeObjIdle /\ ConvIdle
    /\ ReconIdle /\ CrudIdle /\ TrigIdle

NextCopy ==
    \/ CallDeepCopy
    \/ MutateOriginal
    \/ MutateCopy

SpecCopy == InitCopy /\ [][NextCopy]_vars

(***************************************************************************)
(* Claims checked on SpecCopy.                                             *)
(***************************************************************************)
Copied == copyState # Idle /\ copyState.phase = "copied"

\* The copy is structurally equal to the original.
CopyEqualsOriginal ==
    Reify(copyState.copy, copyState.copied) = Reify(copyState.original, copyState.before)

\* The original and the copy reach no common cell.
SharesNoStorage ==
    Reach(copyState.original, copyState.heap) \cap Reach(copyState.copy, copyState.heap) = {}

\* After writes through one of them, everything the other reaches is as it was.
OtherUnchanged ==
    /\ copyState.side = "copy" =>
          Reify(copyState.original, copyState.heap) = Reify(copyState.original, copyState.before)
    /\ copyState.side = "original" =>
          Reify(copyState.copy, copyState.heap) = Reify(copyState.copy, copyState.copied)

\* C25: DeepCopy returns a value structurally equal to its input that shares no
\* storage with it at any depth; after any write through the original or the
\* copy, every value reached through the other is unchanged.
C25_DeepCopyIsEqualAndDisjoint ==
    Copied => CopyEqualsOriginal /\ SharesNoStorage /\ OtherUnchanged

\* The part of C25 about storage alone.
DeepCopyIsDisjoint == Copied => SharesNoStorage /\ OtherUnchanged

(***************************************************************************)
(* triggerOperation, finalizeState, finalizeFailure and the four handlers  *)
(* (internal/provider/idsec_resource.go).                                  *)
(*                                                                         *)
(* A response is the state the framework handed to the handler, the Set    *)
(* calls made on it and whether an error diagnostic was added; the Delete  *)
(* handler passes no response state.  What the steps outside this file do  *)
(* (decoding, the service lookup, the external action, the re-encoding) is *)
(* given by an outcome: the step that fails, if any.                       *)
(***************************************************************************)
Operations == {"create", "read", "update", "delete"}

\* The steps of triggerOperation that can end it early, in their order.
TriggerOutcomes ==
    {"ok", "stateGet", "unsupported", "parse", "parseDiagnostics", "actionMapping",
     "serviceMethod", "serviceError", "actionMethod", "actionError", "noResult",
     "errorResult", "createSchema", "updateSchema", "stateConversion", "stateMerge"}

\* The outcomes that are failures: all but a run to the end, an action that
\* returns nothing and an action whose first result is a nil error.
FailureOutcomes == TriggerOutcomes \ {"ok", "noResult", "errorResult"}

NoState == [nostate |-> TRUE]

Response(state) == [state |-> state, writes |-> << >>, error |-> FALSE]
NoResponse      == [state |-> NoState, writes |-> << >>, error |-> FALSE]

\* respState.Set(ctx, value)
SetState(resp, value) == [resp EXCEPT !.state = value, !.writes = Append(@, value)]

finalizeState_NoRevert(operation, originalState, resp) == resp

\* finalizeState: a response state of a failed Update is set to the original
\* state when that is not null.
finalizeState(operation, originalState, resp) ==
    IF resp.state # NoState /\ ~IsNull(originalState) /\ operation = "update"
    THEN SetState(resp, originalState)
    ELSE resp

\* finalizeFailure: an error diagnostic, then finalizeState.
finalizeFailure(operation, originalState, resp) ==
    [finalizeState(operation, originalState, resp) EXCEPT !.error = TRUE]

\* triggerOperation(ctx, operation, diagnostics, plan, state, respState): the
\* response afterwards.  plan and state are NilModel when the handler passes
\* nil; result is the object the action's result converts to.
triggerOperation(operation, plan, state, resp, outcome, result) ==
    LET originalState == IF state # NilModel /\ outcome # "stateGet"
                         THEN state ELSE ObjectNull(EmptyMap)
    IN IF state # NilModel /\ outcome = "stateGet"
       THEN finalizeFailure(operation, originalState, resp)
       ELSE IF outcome = "unsupported" THEN finalizeState(operation, originalState, resp)
       ELSE IF outcome = "parse" THEN finalizeFailure(operation, originalState, resp)
       ELSE IF outcome = "parseDiagnostics"
       THEN [finalizeState(operation, originalState, resp) EXCEPT !.error = TRUE]
       ELSE IF outcome \in {"actionMapping", "serviceMethod", "serviceError",
                            "actionMethod", "actionError"}
       THEN finalizeFailure(operation, originalState, resp)
       ELSE IF outcome \in {"noResult", "errorResult"} THEN resp
       ELSE IF resp.state = NoState THEN resp
       ELSE IF outcome \in {"createSchema", "updateSchema", "stateConversion"}
       THEN finalizeFailure(operation, originalState, resp)
       ELSE IF plan # NilModel /\ outcome = "stateMerge"
       THEN finalizeFailure(operation, originalState, resp)
       ELSE SetState(resp, result)

PriorStates == {ObjectKnown(ExtraAttrTypes, [id |-> StringValue(id)]) : id \in {"i-0", "i-1"}}
TriggerPlans == {ObjectKnown(ExtraAttrTypes, [id |-> id]) : id \in {StringUnknown, StringValue("i-1")}}
ResultObjects == {ObjectKnown(ExtraAttrTypes, [id |-> StringValue(id)]) : id \in {"i-1", "i-2"}}

TriggerPending(operation) ==
    trigState # Idle /\ trigState.phase = "request" /\ trigState.operation = operation

Triggered(operation, plan, state, resp) ==
    [trigState EXCEPT !.phase = "done",
                      !.resp = triggerOperation(operation, plan, state, resp,
                                                trigState.outcome, trigState.result)]

\* Create: the plan, no state, the response state (null before a create).
Create ==
    /\ TriggerPending("create")
    /\ trigState' = Triggered("create", trigState.plan, NilModel,
                              Response(ObjectNull(ExtraAttrTypes)))
    /\ UNCHANGED <<guardVars, lifeVars, schemaVars, mergeVars, convVars, reconVars, copyVars, crudVars>>

\* Read: no plan, the state, the response state (the prior state).
Read ==
    /\ TriggerPending("read")
    /\ trigState' = Triggered("read", NilModel, trigState.state, Response(trigState.state))
    /\ UNCHANGED <<guardVars, lifeVars, schemaVars, mergeVars, convVars, reconVars, copyVars, crudVars>>

\* Update: the plan, the state, the response state (the prior state).
Update ==
    /\ TriggerPending("update")
    /\ trigState' = Triggered("update", trigState.plan, trigState.state,
                              Response(trigState.state))
    /\ UNCHANGED <<guardVars, lifeVars, schemaVars, mergeVars, convVars, reconVars, copyVars, crudVars>>

\* Delete: no plan, the state, no response state.
Delete ==
    /\ TriggerPending("delete")
    /\ trigState' = Triggered("delete", NilModel, trigState.state, NoResponse)
    /\ UNCHANGED <<guardVars, lifeVars, schemaVars, mergeVars, convVars, reconVars, copyVars, crudVars>>

InitTrigger ==
    /\ \E operation \in Operations, outcome \in TriggerOutcomes, state \in PriorStates,
          plan \in TriggerPlans, result \in ResultObjects :
          trigState = [phase |-> "request", operation |-> operation, outcome |-> outcome,
                       state |-> state, plan |-> plan, result |-> result,
                       resp |-> NoResponse]
    /\ GuardIdle /\ LifeIdle /\ SchemaIdle /\ MergeIdle /\ MergeObjIdle /\ ConvIdle
    /\ ReconIdle /\ CopyIdle /\ CrudIdle

NextTrigger ==
    \/ Create
    \/ Read
    \/ Update
    \/ Delete

SpecTrigger == InitTrigger /\ [][NextTrigger]_vars

(***************************************************************************)
(* Claims checked on SpecTrigger.                                          *)
(***************************************************************************)
TriggerDone(operation) ==
    trigState # Idle /\ trigState.phase = "done" /\ trigState.operation = operation

\* The operation ended at a failing step: one it reaches (Create reads no
\* state, Delete converts no result, only a plan is merged).
TriggerFailed ==
    /\ trigState.outcome \in FailureOutcomes
    /\ trigState.operation = "create" => trigState.outcome # "stateGet"
    /\ trigState.operation = "delete" =>
          trigState.outcome \notin {"createSchema", "updateSchema", "stateConversion", "stateMerge"}
    /\ trigState.operation = "read" => trigState.outcome # "stateMerge"

\* C28: an Update that fails after the prior state was read leaves the response
\* state set to the original prior state, by one Set of it; a failed Create,
\* Read or Delete does not write the response state.
C28_FailedUpdateRevertsOthersDoNotWrite ==
    /\ (TriggerDone("update") /\ TriggerFailed /\ trigState.outcome # "stateGet") =>
          /\ trigState.resp.state = trigState.state
          /\ trigState.resp.writes = <<trigState.state>>
    /\ \A operation \in {"create", "read", "delete"} :
          (TriggerDone(operation) /\ TriggerFailed) => trigState.resp.writes = << >>

C28_Witness ==
    /\ TriggerDone("update") /\ TriggerFailed
    /\ trigState.outcome = "stateMerge"
    /\ trigState.result # trigState.state
    /\ trigState.resp.writes = <<trigState.state>>
    /\ trigState.resp.error

(***************************************************************************)
(* Concurrent operations on resources that share an action definition      *)
(* (internal/provider/idsec_resource.go): schemaForOperation and           *)
(* parsePlanAndState on the heap of DeepCopy.  The definition's schemas    *)
(* are records in the heap; an operation proceeds in three steps (taking   *)
(* its schemas, decoding its input, converting the result) and the steps   *)
(* of different operations interleave.                                     *)
(***************************************************************************)
NumProcs == 2
Procs    == 1..NumProcs

\* The cached prototypes: Schemas of the create/update actions at 3, of the
\* read/delete actions at 6, StateSchema at 9; each holds a slice and a
\* pointer that are not nil.
DefinitionHeap ==
    <<ArrayCell(<<HString("")>>), VarCell(HInt(0)),
      VarCell(HStruct(<<HField("Name", TRUE, HString("")), HField("Tags", TRUE, HSlice(1)),
                        HField("Size", TRUE, HPtr(2))>>)),
      ArrayCell(<<HString("")>>), VarCell(HInt(0)),
      VarCell(HStruct(<<HField("Name", TRUE, HString("")), HField("Tags", TRUE, HSlice(4)),
                        HField("Size", TRUE, HPtr(5))>>)),
      ArrayCell(<<HString("")>>), VarCell(HInt(0)),
      VarCell(HStruct(<<HField("Name", TRUE, HString("")), HField("Tags", TRUE, HSlice(7)),
                        HField("Size", TRUE, HPtr(8)),
                        HField("Status", TRUE, HString(""))>>))>>

\* s.actionDefinition.Schemas[s.actionDefinition.ActionsMappings[operation]]
CachedSchema(operation) == IF operation \in {"create", "update"} THEN HPtr(3) ELSE HPtr(6)
\* s.actionDefinition.StateSchema
CachedStateSchema == HPtr(9)
CachedRoots == {HPtr(3), HPtr(6), HPtr(9)}

schemaForOperationOnHeap_NoCopy(operation, heap) ==
    [val |-> CachedSchema(operation), heap |-> heap]

\* schemaForOperation: schemas.DeepCopy(operationSchema).
schemaForOperationOnHeap(operation, heap) == DeepCopy(CachedSchema(operation), heap)

\* reflect.New(protoType): a new record of the prototype's type, all zero.
NewRecord(prototype, heap) ==
    [val |-> HPtr(Len(heap) + 1),
     heap |-> Append(heap, VarCell(HZeroOf(heap[prototype.addr].val)))]

\* mapstructure.Decode into a record: a scalar is set; a pointer that is not
\* nil is decoded through, a slice that is not nil has its elements set in
\* place, a nil slice is made; a nil pointer stays (the input names no value
\* for it).
RECURSIVE decodeInto(_, _, _)
RECURSIVE decodeIntoFields(_, _, _)
decodeInto(v, input, heap) ==
    CASE v.h = "string" -> [val |-> HString(input.str), heap |-> heap]
      [] v.h = "int"    -> [val |-> HInt(input.int), heap |-> heap]
      [] v.h = "ptr"    ->
           LET target == decodeInto(heap[v.addr].val, input, heap)
           IN [val |-> v, heap |-> [target.heap EXCEPT ![v.addr] = VarCell(target.val)]]
      [] v.h = "slice"  ->
           [val |-> v,
            heap |-> [heap EXCEPT ![v.addr] =
                         ArrayCell([n \in DOMAIN heap[v.addr].elems |-> HString(input.str)])]]
      [] v.h = "nil" /\ v.of = "slice" ->
           [val |-> HSlice(Len(heap) + 1),
            heap |-> Append(heap, ArrayCell(<<HString(input.str)>>))]
      [] v.h = "struct" ->
           LET fields == decodeIntoFields(v.fields, input, heap)
           IN [val |-> HStruct(fields.vals), heap |-> fields.heap]
      [] OTHER -> [val |-> v, heap |-> heap]

decodeIntoFields(fields, input, heap) ==
    IF fields = << >> THEN [vals |-> << >>, heap |-> heap]
    ELSE LET first == decodeInto(Head(fields).val, input, heap)
             rest  == decodeIntoFields(Tail(fields), input, first.heap)
         IN [vals |-> <<[Head(fields) EXCEPT !.val = first.val]>> \o rest.vals,
             heap |-> rest.heap]

\* What an operation decodes: values of its own.
InputOf(proc) == [str |-> IF proc = 1 THEN "one" ELSE "other", int |-> proc]

CrudProc(proc) == crudState.procs[proc]

\* The first step of parsePlanAndState: with a plan the operation's schema is
\* taken (schemaForOperation); with a state only, a copy of StateSchema is
\* taken, the state is decoded into a new record of its type, and then the
\* operation's schema is taken.
TakeSchemas(proc) ==
    /\ crudState # Idle /\ CrudProc(proc).pc = "start"
    /\ LET operation == CrudProc(proc).operation
           stateSchema == IF operation \in {"read", "delete"}
                          THEN DeepCopy(CachedStateSchema, crudState.heap)
                          ELSE [val |-> HNilOf("iface"), heap |-> crudState.heap]
           stateNew    == IF operation \in {"read", "delete"}
                          THEN NewRecord(stateSchema.val, stateSchema.heap)
                          ELSE stateSchema
           stateStruct == IF operation \in {"read", "delete"}
                          THEN decodeInto(stateNew.val, InputOf(proc), stateNew.heap)
                          ELSE stateNew
           operationSchema == schemaForOperationOnHeap(operation, stateStruct.heap)
       IN crudState' = [crudState EXCEPT !.heap = operationSchema.heap,
                                         !.procs[proc].pc = "schemas",
                                         !.procs[proc].schema = operationSchema.val]
    /\ UNCHANGED <<guardVars, lifeVars, schemaVars, mergeVars, convVars, reconVars, copyVars, trigVars>>

\* The decoding: with a plan (StructFromPlanObject, StructFromPlanAndStateObject)
\* into a new record of the schema's type; with a state only
\* (mapstructure.Decode(stateSchema, operationSchemaInput)) into the schema
\* that was taken.
DecodeInput(proc) ==
    /\ crudState # Idle /\ CrudProc(proc).pc = "schemas"
    /\ LET operation == CrudProc(proc).operation
           target  == IF operation \in {"create", "update"}
                      THEN NewRecord(CrudProc(proc).schema, crudState.heap)
                      ELSE [val |-> CrudProc(proc).schema, heap |-> crudState.heap]
           decoded == decodeInto(target.val, InputOf(proc), target.heap)
       IN crudState' = [crudState EXCEPT !.heap = decoded.heap,
                                         !.procs[proc].pc = "decoded",
                                         !.procs[proc].input = decoded.val,
                                         !.procs[proc].decoded = Reify(decoded.val, decoded.heap)]
    /\ UNCHANGED <<guardVars, lifeVars, schemaVars, mergeVars, convVars, reconVars, copyVars, trigVars>>

\* The conversion of the result when there is a response state: the create
\* and update schemas are taken again and the state schema is read.
ConvertResult(proc) ==
    /\ crudState # Idle /\ CrudProc(proc).pc = "decoded"
    /\ LET createSchema == schemaForOperationOnHeap("create", crudState.heap)
           updateSchema == schemaForOperationOnHeap("update", createSchema.heap)
       IN crudState' = [crudState EXCEPT
                           !.heap = IF CrudProc(proc).operation = "delete"
                                    THEN @ ELSE updateSchema.heap,
                           !.procs[proc].pc = "done"]
    /\ UNCHANGED <<guardVars, lifeVars, schemaVars, mergeVars, convVars, reconVars, copyVars, trigVars>>

InitCrud ==
    /\ \E operations \in [Procs -> Operations] :
          crudState = [heap |-> DefinitionHeap,
                       procs |-> [proc \in Procs |->
                                     [operation |-> operations[proc], pc |-> "start",
                                      schema |-> HNilOf("iface"), input |-> HNilOf("iface"),
                                      decoded |-> HNilOf("iface")]]]
    /\ GuardIdle /\ LifeIdle /\ SchemaIdle /\ MergeIdle /\ MergeObjIdle /\ ConvIdle
    /\ ReconIdle /\ CopyIdle /\ TrigIdle

NextCrud ==
    \/ \E proc \in Procs : TakeSchemas(proc)
    \/ \E proc \in Procs : DecodeInput(proc)
    \/ \E proc \in Procs : ConvertResult(proc)

SpecCrud == InitCrud /\ [][NextCrud]_vars

(***************************************************************************)
(* Claims checked on SpecCrud.                                             *)
(***************************************************************************)
\* The cached prototypes are as the definition was built.
CachedSchemasUnchanged ==
    \A root \in CachedRoots : Reify(root, crudState.heap) = Reify(root, DefinitionHeap)

\* What an operation decoded is what it still holds, and it holds it in cells
\* no cached prototype and no other operation reaches.
DecodedValuesPrivate ==
    \A proc \in Procs :
        CrudProc(proc).pc \in {"decoded", "done"} =>
            /\ Reify(CrudProc(proc).input, crudState.heap) = CrudProc(proc).decoded
            /\ \A root \in CachedRoots :
                  Reach(CrudProc(proc).input, crudState.heap) \cap Reach(root, crudState.heap) = {}
            /\ \A other \in Procs \ {proc} :
                  Reach(CrudProc(proc).input, crudState.heap)
                      \cap Reach(CrudProc(other).input, crudState.heap) = {}

\* C27: under every interleaving of concurrent Create, Read, Update and Delete
\* operations that share an action definition, the cached prototype schemas are
\* never mutated and what one operation decoded is never visible to another.
C27_CachedSchemasNeverMutated ==
    crudState # Idle => CachedSchemasUnchanged /\ DecodedValuesPrivate

C27_Witness ==
    /\ crudState # Idle
    /\ CrudProc(1).operation = "read" /\ CrudProc(2).operation = "delete"
    /\ CrudProc(1).pc = "done" /\ CrudProc(2).pc = "done"
    /\ CrudProc(1).decoded # CrudProc(2).decoded
    /\ Reify(CrudProc(1).input, crudState.heap) # Reify(CachedSchema("read"), crudState.heap)

====
